---- MODULE Spec2Model ----
(***************************************************************************)
(* Model of the orchestration core of the tool-using agent: the graph      *)
(* planner -> controller -> (tool_exec -> controller)* -> finalize, the    *)
(* task state threaded through it, and the answer normaliser.              *)
(*                                                                         *)
(* A text is a sequence of one-character strings, so that the string       *)
(* functions of the program (strip, lower, startswith, regex searches) are *)
(* computed and not assumed.  Texts are restricted to ASCII.               *)
(***************************************************************************)
EXTENDS Integers, Sequences, FiniteSets, TLC

(***************************************************************************)
(* Bounds of the model.                                                    *)
(***************************************************************************)
MaxStepsBound == 3      \* max_steps ranges over 0..MaxStepsBound
MaxPlanResponse == 5    \* the oracle's plan response has 0 or MaxPlanResponse steps
MaxCeilSteps == 60      \* the largest max_steps of a run under the recursion limit

(***************************************************************************)
(* Characters and elementary string functions (Python str methods).        *)
(***************************************************************************)
UPPER == <<"A","B","C","D","E","F","G","H","I","J","K","L","M","N","O","P","Q","R","S","T","U","V","W","X","Y","Z">>
LOWER == <<"a","b","c","d","e","f","g","h","i","j","k","l","m","n","o","p","q","r","s","t","u","v","w","x","y","z">>
ASCII == <<" ","!","<dquote>","#","$","%","&","'","(",")","*","+",",","-",".","/","0","1","2","3","4","5","6","7","8","9",":",";","<","=",">","?","@","A","B","C","D","E","F","G","H","I","J","K","L","M","N","O","P","Q","R","S","T","U","V","W","X","Y","Z","[","<bslash>","]","^","_","<btick>","a","b","c","d","e","f","g","h","i","j","k","l","m","n","o","p","q","r","s","t","u","v","w","x","y","z","{","|","}","~">>
DIGITS == <<"0","1","2","3","4","5","6","7","8","9">>

Range(f) == {f[i] : i \in DOMAIN f}
SetMin(S) == CHOOSE x \in S : \A y \in S : x <= y
SetMax(S) == CHOOSE x \in S : \A y \in S : x >= y

\* position of c in the table t, 0 when absent
IndexOf(t, c) == IF \E i \in DOMAIN t : t[i] = c THEN CHOOSE i \in DOMAIN t : t[i] = c ELSE 0

UpperSet == Range(UPPER)
LowerSet == Range(LOWER)
DigitSet == Range(DIGITS)
IsUpper(c) == c \in UpperSet
IsLower(c) == c \in LowerSet
IsAlpha(c) == IsUpper(c) \/ IsLower(c)
IsDigit(c) == c \in DigitSet
SpaceSet == {" ", "\n", "\t", "\r"}
IsSpace(c) == c \in SpaceSet
\* the regex class \w
IsWord(c) == IsAlpha(c) \/ IsDigit(c) \/ c = "_"

lower_char(c) == IF IsUpper(c) THEN LOWER[IndexOf(UPPER, c)] ELSE c
upper_char(c) == IF IsLower(c) THEN UPPER[IndexOf(LOWER, c)] ELSE c
\* str.lower, str.upper, str.casefold (ASCII)
lower(s) == [i \in 1..Len(s) |-> lower_char(s[i])]
upper(s) == [i \in 1..Len(s) |-> upper_char(s[i])]
\* ord(c), for ordering texts (the double quote, the backslash and the backquote are not
\* used in the texts of the model; their places in the table are kept)
Ord(c) == IndexOf(ASCII, c) + 31

\* str.strip()
strip(s) ==
    LET keep == {i \in 1..Len(s) : ~IsSpace(s[i])}
    IN  IF keep = {} THEN <<>> ELSE SubSeq(s, SetMin(keep), SetMax(keep))

\* kw in s
contains(s, kw) ==
    \E i \in 1..(Len(s) - Len(kw) + 1) : \A j \in 1..Len(kw) : s[i + j - 1] = kw[j]

\* s.startswith(p)
startswith(s, p) == Len(s) >= Len(p) /\ \A j \in 1..Len(p) : s[j] = p[j]

\* s.replace(c, "") for a single character c
remove_char(s, c) == SelectSeq(s, LAMBDA x : x # c)

\* str(n) for an integer n >= 0
RECURSIVE nat_to_text(_)
nat_to_text(n) ==
    IF n < 10 THEN <<DIGITS[n + 1]>>
    ELSE nat_to_text(n \div 10) \o <<DIGITS[(n % 10) + 1]>>

\* a value that stands for Python's None where a text is expected; no text
\* equals it, since every element of a text is a single character
NoneText == <<"<None>">>

\* re.split on a character class, empty pieces included (as re.split returns them)
RECURSIVE split_on(_, _, _)
split_on(s, seps, cur) ==
    IF s = <<>> THEN <<cur>>
    ELSE IF Head(s) \in seps
         THEN IF Len(s) > 1 /\ s[2] \in seps
              THEN split_on(Tail(s), seps, cur)          \* a run of separators is one separator
              ELSE <<cur>> \o split_on(Tail(s), seps, <<>>)
         ELSE split_on(Tail(s), seps, Append(cur, Head(s)))

\* ", ".join(items)
RECURSIVE join_comma(_)
join_comma(items) ==
    IF items = <<>> THEN <<>>
    ELSE IF Len(items) = 1 THEN items[1]
    ELSE items[1] \o <<",", " ">> \o join_comma(Tail(items))

(***************************************************************************)
(* Answer normaliser (agent/finalize.py).                                  *)
(***************************************************************************)
\* end of the maximal run of digits that starts at index j (s[j] is a digit)
digit_run_end(s, j) == SetMax({k \in j..Len(s) : \A m \in j..k : IsDigit(s[m])})

\* the regex -?\d+(?:\.\d+)? matched at index i: index of its last character, 0 when
\* it does not match there
number_match_end(s, i) ==
    LET d == IF s[i] = "-" THEN i + 1 ELSE i
    IN  IF d > Len(s) THEN 0
        ELSE IF ~IsDigit(s[d]) THEN 0
        ELSE LET e == digit_run_end(s, d)
             IN  IF e + 2 <= Len(s) /\ s[e + 1] = "." /\ IsDigit(s[e + 2])
                 THEN digit_run_end(s, e + 2)
                 ELSE e

\* re.search(r"-?\d+(?:\.\d+)?", s): the leftmost match, NoneText when there is none
number_search(s) ==
    LET starts == {i \in 1..Len(s) : number_match_end(s, i) > 0}
    IN  IF starts = {} THEN NoneText
        ELSE SubSeq(s, SetMin(starts), number_match_end(s, SetMin(starts)))

\* str(int(v)) for v matching -?\d+
int_canon(v) ==
    LET neg  == v[1] = "-"
        ds   == IF neg THEN Tail(v) ELSE v
        nz   == {i \in 1..Len(ds) : ds[i] # "0"}
    IN  IF nz = {} THEN <<"0">>
        ELSE (IF neg THEN <<"-">> ELSE <<>>) \o SubSeq(ds, SetMin(nz), Len(ds))

_NUM_WORDS ==
  {<<<<"z","e","r","o">>, 0>>, <<<<"o","n","e">>, 1>>, <<<<"t","w","o">>, 2>>, <<<<"t","h","r","e","e">>, 3>>, <<<<"f","o","u","r">>, 4>>,
   <<<<"f","i","v","e">>, 5>>, <<<<"s","i","x">>, 6>>, <<<<"s","e","v","e","n">>, 7>>, <<<<"e","i","g","h","t">>, 8>>, <<<<"n","i","n","e">>, 9>>,
   <<<<"t","e","n">>, 10>>, <<<<"e","l","e","v","e","n">>, 11>>, <<<<"t","w","e","l","v","e">>, 12>>, <<<<"t","h","i","r","t","e","e","n">>, 13>>,
   <<<<"f","o","u","r","t","e","e","n">>, 14>>, <<<<"f","i","f","t","e","e","n">>, 15>>, <<<<"s","i","x","t","e","e","n">>, 16>>, <<<<"s","e","v","e","n","t","e","e","n">>, 17>>,
   <<<<"e","i","g","h","t","e","e","n">>, 18>>, <<<<"n","i","n","e","t","e","e","n">>, 19>>, <<<<"t","w","e","n","t","y">>, 20>>, <<<<"t","h","i","r","t","y">>, 30>>,
   <<<<"f","o","r","t","y">>, 40>>, <<<<"f","i","f","t","y">>, 50>>, <<<<"s","i","x","t","y">>, 60>>, <<<<"s","e","v","e","n","t","y">>, 70>>,
   <<<<"e","i","g","h","t","y">>, 80>>, <<<<"n","i","n","e","t","y">>, 90>>}

SpaceOrHyphen == SpaceSet \cup {"-"}

RECURSIVE words_total(_)
\* sum of the values of the parts, -1 as soon as a part is not a number word
words_total(parts) ==
    IF parts = <<>> THEN 0
    ELSE IF \E pr \in _NUM_WORDS : pr[1] = Head(parts)
         THEN LET v == (CHOOSE pr \in _NUM_WORDS : pr[1] = Head(parts))[2]
                  r == words_total(Tail(parts))
              IN  IF r < 0 THEN -1 ELSE v + r
         ELSE -1

\* _words_to_int_simple: the total, or -1 for None
_words_to_int_simple(text) ==
    LET t     == strip(lower(text))
        parts == SelectSeq(split_on(t, SpaceOrHyphen, <<>>), LAMBDA p : p # <<>>)
    IN  words_total(parts)

\* v is the number found in the text (NoneText: none), w the value of the
\* number words (-1: none)
numeric_pick(v, w) ==
    IF v # NoneText
    THEN (IF \E i \in 1..Len(v) : v[i] = "." THEN v ELSE int_canon(v))
    ELSE IF w >= 0 THEN nat_to_text(w) ELSE NoneText

numeric_stripped(s) ==
    numeric_pick(number_search(remove_char(s, ",")), _words_to_int_simple(s))

\* _numeric_only: the numeric text, or NoneText
_numeric_only(s0) == numeric_stripped(strip(s0))

\* _first_name_only: the first run of letters, else the stripped text
_first_name_only(s) ==
    LET idx == {i \in 1..Len(s) : IsAlpha(s[i])}
    IN  IF idx = {} THEN strip(s)
        ELSE LET b == SetMin(idx)
                 e == SetMax({k \in b..Len(s) : \A m \in b..k : IsAlpha(s[m])})
             IN  SubSeq(s, b, e)

\* the regex assertion \b between s[p-1] and s[p]
word_boundary(s, p) ==
    LET before == p - 1 >= 1 /\ IsWord(s[p - 1])
        after  == p <= Len(s) /\ IsWord(s[p])
    IN  before # after

\* _ioc_code_only: re.search(r"\b[A-Z]{3}\b", s.upper()), or NoneText
_ioc_code_only(s) ==
    LET u      == upper(s)
        starts == {i \in 1..(Len(u) - 2) :
                      /\ IsUpper(u[i]) /\ IsUpper(u[i + 1]) /\ IsUpper(u[i + 2])
                      /\ word_boundary(u, i) /\ word_boundary(u, i + 3)}
    IN  IF starts = {} THEN NoneText ELSE SubSeq(u, SetMin(starts), SetMin(starts) + 2)

\* a < b for the keys of sorted(), code point by code point
RECURSIVE text_lt(_, _)
text_lt(a, b) ==
    IF b = <<>> THEN FALSE
    ELSE IF a = <<>> THEN TRUE
    ELSE IF Ord(Head(a)) # Ord(Head(b)) THEN Ord(Head(a)) < Ord(Head(b))
    ELSE text_lt(Tail(a), Tail(b))

\* sorted(items, key=str.casefold): stable
RECURSIVE insert_sorted(_, _)
insert_sorted(sorted, x) ==
    IF sorted = <<>> THEN <<x>>
    ELSE IF text_lt(lower(x), lower(Head(sorted))) THEN <<x>> \o sorted
    ELSE <<Head(sorted)>> \o insert_sorted(Tail(sorted), x)

RECURSIVE sorted_casefold(_)
sorted_casefold(items) ==
    IF items = <<>> THEN <<>>
    ELSE insert_sorted(sorted_casefold(SubSeq(items, 1, Len(items) - 1)), items[Len(items)])

CsvSep == {",", "\n", ";"}

strip_each(items) == [i \in 1..Len(items) |-> strip(items[i])]

\* _csv_normalize
_csv_normalize(items_text, alphabetize) ==
    LET raw   == split_on(items_text, CsvSep, <<>>)
        items == SelectSeq(strip_each(raw), LAMBDA x : x # <<>>)
    IN  join_comma(IF alphabetize THEN sorted_casefold(items) ELSE items)

\* int(v) for a text of digits
RECURSIVE text_to_nat(_)
text_to_nat(ds) ==
    IF ds = <<>> THEN 0
    ELSE 10 * text_to_nat(SubSeq(ds, 1, Len(ds) - 1)) + (IndexOf(DIGITS, ds[Len(ds)]) - 1)

\* f"{x:.2f}" where the decimal text of x has a tie at the third fraction digit
\* and x is not a binary fraction: the result depends on the nearest double
UndeterminedText == <<"<undetermined>">>

\* "$" and the amount of n cents with two decimals
usd_format(neg, n) ==
    <<"$">> \o (IF neg THEN <<"-">> ELSE <<>>) \o nat_to_text(n \div 100) \o <<".">>
            \o <<DIGITS[((n % 100) \div 10) + 1], DIGITS[(n % 10) + 1]>>

\* round-half-even of the binary value to cents (the rounding of ":.2f"): cents
\* and f2 are the digits kept, third the first digit dropped, more says that a
\* nonzero digit follows it.  A tie is exact in binary when the thousandths are
\* a multiple of 125; of any other tie the binary value lies beside the decimal
\* one and the direction is not determined here.
usd_round(neg, cents, f2, third, more) ==
    IF third = 5 /\ ~more /\ (10 * f2 + 5) % 125 # 0 THEN UndeterminedText
    ELSE IF \/ third > 5
            \/ third = 5 /\ more
            \/ third = 5 /\ ~more /\ cents % 2 = 1
    THEN usd_format(neg, cents + 1)
    ELSE usd_format(neg, cents)

\* the digits after the second decimal
usd_rest(fr) == IF Len(fr) > 2 THEN SubSeq(fr, 3, Len(fr)) ELSE <<>>

\* ip and fr are the digits before and after the decimal point
usd_parts(neg, ip, fr) ==
    usd_round(neg,
              100 * text_to_nat(ip) + text_to_nat(SubSeq(fr \o <<"0", "0">>, 1, 2)),
              text_to_nat(SubSeq(fr \o <<"0", "0">>, 1, 2)),
              IF Len(fr) > 2 THEN text_to_nat(<<fr[3]>>) ELSE 0,
              \E i \in 2..Len(usd_rest(fr)) : usd_rest(fr)[i] # "0")

\* the position of the first "." of body, 0 when there is none
first_dot(body) ==
    IF \E i \in 1..Len(body) : body[i] = "."
    THEN SetMin({i \in 1..Len(body) : body[i] = "."})
    ELSE 0

usd_body(neg, body, d) ==
    usd_parts(neg,
              IF d = 0 THEN body ELSE SubSeq(body, 1, d - 1),
              IF d = 0 THEN <<>> ELSE SubSeq(body, d + 1, Len(body)))

\* v is the number matched, NoneText when there is none
usd_of_number(v) ==
    IF v = NoneText THEN NoneText
    ELSE IF v[1] = "-" THEN usd_body(TRUE, Tail(v), first_dot(Tail(v)))
    ELSE usd_body(FALSE, v, first_dot(v))

\* _usd_two_decimals: f"${float(v):.2f}" for the first number v, or NoneText
_usd_two_decimals(s) == usd_of_number(number_search(remove_char(s, ",")))

\* one element of the SAN pattern at position pos (0 = already failed)
san_step(s, pos, take, class) ==
    IF pos = 0 THEN 0
    ELSE IF ~take THEN pos
    ELSE IF pos <= Len(s) /\ s[pos] \in class THEN pos + 1
    ELSE 0

SanPiece == {"K", "Q", "R", "B", "N"}
SanFile  == {"a", "b", "c", "d", "e", "f", "g", "h"}
SanRank  == {"1", "2", "3", "4", "5", "6", "7", "8"}
SanPromo == {"Q", "R", "B", "N"}

\* [KQRBN]?[a-h]?[1-8]?x?[a-h][1-8](=[QRBN])?[+#]?\b matched at i with the optional
\* elements taken as o says: index after the match, 0 when it fails
san_try(s, i, o) ==
    LET p1 == san_step(s, i, o[1], SanPiece)
        p2 == san_step(s, p1, o[2], SanFile)
        p3 == san_step(s, p2, o[3], SanRank)
        p4 == san_step(s, p3, o[4], {"x"})
        p5 == san_step(s, p4, TRUE, SanFile)
        p6 == san_step(s, p5, TRUE, SanRank)
        p7 == san_step(s, san_step(s, p6, o[5], {"="}), o[5], SanPromo)
        p8 == san_step(s, p7, o[6], {"+", "#"})
    IN  IF p8 # 0 /\ word_boundary(s, p8) THEN p8 ELSE 0

\* the order in which backtracking tries the optional elements: greedy first
san_rank(o) ==
    (IF o[1] THEN 0 ELSE 32) + (IF o[2] THEN 0 ELSE 16) + (IF o[3] THEN 0 ELSE 8)
    + (IF o[4] THEN 0 ELSE 4) + (IF o[5] THEN 0 ELSE 2) + (IF o[6] THEN 0 ELSE 1)

\* O-O(-O)?\b matched at i: index after the match, 0 when it fails
castle_try(s, i) ==
    LET long  == i + 4 <= Len(s) /\ SubSeq(s, i, i + 4) = <<"O","-","O","-","O">> /\ word_boundary(s, i + 5)
        short == i + 2 <= Len(s) /\ SubSeq(s, i, i + 2) = <<"O","-","O">> /\ word_boundary(s, i + 3)
    IN  IF long THEN i + 5 ELSE IF short THEN i + 3 ELSE 0

\* the match the regex engine prefers among the choices ok of optional elements
san_best(s, i, ok) ==
    IF ok = {} THEN 0
    ELSE san_try(s, i, CHOOSE o \in ok : \A o2 \in ok : san_rank(o) <= san_rank(o2))

\* c is the end of the castling alternative, which comes first in the pattern
san_or_castle(s, i, c) ==
    IF c # 0 THEN c
    ELSE san_best(s, i, {o \in [1..6 -> BOOLEAN] : san_try(s, i, o) # 0})

\* the whole pattern matched at i: index after the match, 0 when it fails
san_match_at(s, i) ==
    IF ~word_boundary(s, i) THEN 0
    ELSE san_or_castle(s, i, castle_try(s, i))

\* the least element of a set of positions, 0 when it is empty
min_or_zero(S) == IF S = {} THEN 0 ELSE SetMin(S)

\* the match that starts at b (0: there is none)
san_from(s, b) == IF b = 0 THEN NoneText ELSE SubSeq(s, b, san_match_at(s, b) - 1)

\* _san_only: the leftmost match, or NoneText
_san_only(s) == san_from(s, min_or_zero({i \in 1..Len(s) : san_match_at(s, i) # 0}))

\* the cue tests on the lower-cased question
NumericCues == {<<"h","o","w"," ","m","a","n","y">>, <<"h","i","g","h","e","s","t"," ","n","u","m","b","e","r">>, <<"f","i","n","a","l"," ","n","u","m","e","r","i","c"," ","o","u","t","p","u","t">>, <<"n","u","m","b","e","r"," ","o","f">>, <<"l","e","a","s","t"," ","n","u","m","b","e","r">>}
ListCues == {<<"c","o","m","m","a"," ","s","e","p","a","r","a","t","e","d">>, <<"c","o","m","m","a","-","s","e","p","a","r","a","t","e","d">>, <<"c","o","m","m","a"," ","d","e","l","i","m","i","t","e","d">>, <<"c","o","m","m","a","-","d","e","l","i","m","i","t","e","d">>,
             <<"a","s","c","e","n","d","i","n","g"," ","o","r","d","e","r">>, <<"a","l","p","h","a","b","e","t","i","z","e">>}
CommaCues == {<<"c","o","m","m","a"," ","s","e","p","a","r","a","t","e","d">>, <<"c","o","m","m","a","-","s","e","p","a","r","a","t","e","d">>, <<"c","o","m","m","a"," ","d","e","l","i","m","i","t","e","d">>, <<"c","o","m","m","a","-","d","e","l","i","m","i","t","e","d">>}

has_numeric_cue(q) == \E kw \in NumericCues : contains(q, kw)
has_first_name_cue(q) == contains(q, <<"g","i","v","e"," ","o","n","l","y"," ","t","h","e"," ","f","i","r","s","t"," ","n","a","m","e">>)
has_ioc_cue(q) == contains(q, <<"i","o","c"," ","c","o","u","n","t","r","y"," ","c","o","d","e">>)
has_list_cue(q) == \E kw \in ListCues : contains(q, kw)
has_comma_cue(q) == \E kw \in CommaCues : contains(q, kw)
has_usd_cue(q) == contains(q, <<"u","s","d">>) /\ (contains(q, <<"t","w","o"," ","d","e","c","i","m","a","l">>) \/ contains(q, <<"t","w","o"," ","d","e","c","i","m","a","l","s">>))
has_san_cue(q) == contains(q, <<"a","l","g","e","b","r","a","i","c"," ","n","o","t","a","t","i","o","n">>) \/ contains(q, <<"s","a","n">>)

\* the rules of normalize_answer in their order, for q the lowered question and
\* a the stripped text; num, ioc, usd and san are what _numeric_only,
\* _ioc_code_only, _usd_two_decimals and _san_only make of a
normalize_pick(q, a, num, ioc, usd, san) ==
    IF has_numeric_cue(q) /\ num # NoneText THEN num
    ELSE IF has_first_name_cue(q) THEN _first_name_only(a)
    ELSE IF has_ioc_cue(q) /\ ioc # NoneText THEN ioc
    ELSE IF has_list_cue(q)
         THEN _csv_normalize(a, contains(q, <<"a","l","p","h","a","b","e","t","i","z","e">>) \/ contains(q, <<"a","s","c","e","n","d","i","n","g"," ","o","r","d","e","r">>))
    ELSE IF has_usd_cue(q) /\ usd # NoneText THEN usd
    ELSE IF has_san_cue(q) /\ san # NoneText THEN san
    ELSE a

normalize_rules(q, a) ==
    normalize_pick(q, a, _numeric_only(a), _ioc_code_only(a), _usd_two_decimals(a), _san_only(a))

\* normalize_answer(question, text)
normalize_answer(question, text) == normalize_rules(lower(question), strip(text))

\* re.fullmatch(r"-?\d+(?:\.\d+)?", a)
fullmatch_number(a) == Len(a) > 0 /\ number_match_end(a, 1) = Len(a)

\* re.fullmatch(r"\$\d+\.\d{2}", a)
fullmatch_usd(a) ==
    /\ Len(a) >= 5
    /\ a[1] = "$"
    /\ a[Len(a) - 2] = "."
    /\ \A i \in 2..Len(a) : i # Len(a) - 2 => IsDigit(a[i])

\* the rules of is_plausible_for_question in their order, for q the lowered
\* question and a the stripped answer
plausible_rules(q, a) ==
    IF has_numeric_cue(q) THEN fullmatch_number(a)
    ELSE IF has_ioc_cue(q) THEN Len(a) = 3 /\ \A i \in 1..3 : IsUpper(a[i])
    ELSE IF has_san_cue(q) THEN _san_only(a) # NoneText
    ELSE IF has_comma_cue(q) THEN \E i \in 1..Len(a) : a[i] = ","
    ELSE IF has_usd_cue(q) THEN fullmatch_usd(a)
    ELSE IF has_first_name_cue(q) THEN Len(a) > 0 /\ \A i \in 1..Len(a) : IsAlpha(a[i])
    ELSE Len(a) > 0

\* is_plausible_for_question(question, normalized)
is_plausible_for_question(question, normalized) ==
    plausible_rules(lower(question), strip(normalized))

\* the rule normalize_answer selects by the cues of the lowered question q:
\* the first of its conditions, in their order, that holds
normalize_route(q) ==
    IF has_numeric_cue(q) THEN "numeric"
    ELSE IF has_first_name_cue(q) THEN "first_name"
    ELSE IF has_ioc_cue(q) THEN "ioc"
    ELSE IF has_list_cue(q) THEN "list"
    ELSE IF has_usd_cue(q) THEN "usd"
    ELSE IF has_san_cue(q) THEN "san"
    ELSE "default"

\* the rule is_plausible_for_question validates against: the first of its
\* conditions, in their order, that holds for the lowered question q
plausible_route(q) ==
    IF has_numeric_cue(q) THEN "numeric"
    ELSE IF has_ioc_cue(q) THEN "ioc"
    ELSE IF has_san_cue(q) THEN "san"
    ELSE IF has_comma_cue(q) THEN "list"
    ELSE IF has_usd_cue(q) THEN "usd"
    ELSE IF has_first_name_cue(q) THEN "first_name"
    ELSE "default"

\* x when an extraction gave a text, else a
text_or(x, a) == IF x # NoneText THEN x ELSE a

\* a or b: a when it is not empty, else b
first_nonempty(a, b) == IF a # <<>> THEN a ELSE b

\* (faulty variant) the candidate is taken without the plausibility check
early_finish_unchecked(question, final) == <<TRUE, final>>

\* lines 115-116 of finalize.py: the verdict on the normalized candidate
early_finish_final(question, final) == <<is_plausible_for_question(question, final), final>>

early_finish_candidate(question, candidate) ==
    IF candidate = <<>> THEN <<FALSE, <<>>>>
    ELSE early_finish_final(question, normalize_answer(question, candidate))

\* early_finish(question, observation, current_answer): <<should, final>>
early_finish(question, observation, current_answer) ==
    early_finish_candidate(question, first_nonempty(strip(observation), current_answer))

(***************************************************************************)
(* Texts of the program and of the model's environment.                    *)
(***************************************************************************)
MSG_MAX_STEPS      == <<"M","a","x"," ","s","t","e","p","s"," ","r","e","a","c","h","e","d",".">>
WHY_BUDGET         == <<"B","u","d","g","e","t"," ","e","x","h","a","u","s","t","e","d",".">>
MSG_KEY_MISSING    == <<"O","P","E","N","A","I","_","A","P","I","_","K","E","Y"," ","m","i","s","s","i","n","g",".">>
WHY_KEY_MISSING    == <<"L","L","M"," ","n","o","t"," ","c","o","n","f","i","g","u","r","e","d",".">>
MSG_NO_JSON        == <<"C","o","n","t","r","o","l","l","e","r"," ","d","i","d"," ","n","o","t"," ","r","e","t","u","r","n"," ","J","S","O","N",".">>
WHY_PARSE          == <<"P","a","r","s","e"," ","e","r","r","o","r",".">>
WHY_AUTO_FINISH    == <<"S","u","c","c","e","s","s","f","u","l"," ","t","o","o","l"," ","r","e","s","u","l","t",".">>
MSG_UNKNOWN_TOOL   == <<"E","R","R","O","R",":"," ","U","n","k","n","o","w","n"," ","t","o","o","l",":"," ">>
MSG_NOT_SPECIFIED  == <<"E","R","R","O","R",":"," ","T","o","o","l"," ","n","o","t"," ","s","p","e","c","i","f","i","e","d",".">>
MSG_TOOL_ERROR     == <<"T","O","O","L","_","E","R","R","O","R",":"," ">>
MSG_STOPPING       == <<"S","t","o","p","p","i","n","g"," ","d","u","e"," ","t","o"," ","r","e","p","e","a","t","e","d"," ","f","a","i","l","u","r","e","s"," ","c","a","l","l","i","n","g"," ">>
WHY_LOOP           == <<"l","o","o","p"," ","p","r","e","v","e","n","t","i","o","n">>
WHY_EARLY          == <<"E","a","r","l","y","-","s","t","o","p",":"," ","c","o","n","f","i","d","e","n","t"," ","f","i","n","a","l"," ","a","n","s","w","e","r"," ","f","r","o","m"," ">>
ACTION_FINISH      == <<"f","i","n","i","s","h">>
ERROR_MARKERS      == {<<"E","R","R","O","R">>, <<"T","O","O","L","_","E","R","R","O","R">>, <<"u","n","k","n","o","w","n">>}

\* f"{x}" of a value that may be None
fmt(x) == IF x = NoneText THEN <<"N","o","n","e">> ELSE x

\* a dict is a function from keys to values; {} is the empty function
EmptyDict == <<>>
\* next_action = None
NoneAction == [none |-> TRUE]
\* the params of a decision when the oracle did not send a JSON object there
NonMapping == [nonmapping |-> <<"a","b","c">>]
is_mapping(p) == "nonmapping" \notin DOMAIN p
\* the text of the exception dict(raw) raises on such params
E_DICT == <<"d","i","c","t","i","o","n","a","r","y"," ","u","p","d","a","t","e"," ","s","e","q","u","e","n","c","e"," ","e","l","e","m","e","n","t"," ","#","0"," ","h","a","s"," ","l","e","n","g","t","h"," ","1",";"," ","2"," ","i","s"," ","r","e","q","u","i","r","e","d">>

(***************************************************************************)
(* Tool registry (agent/registry.py, agent/tools).                         *)
(***************************************************************************)
MATH_EVAL == <<"m","a","t","h","_","e","v","a","l">>
\* a tool name the registry does not have
NOPE == <<"n","o","p","e">>

TOOL_REGISTRY ==
    {<<"r","e","v","e","r","s","e","_","d","e","c","o","d","e">>, MATH_EVAL, <<"c","o","d","e","_","r","u","n">>, <<"w","i","k","i","_","l","o","o","k","u","p">>, <<"w","e","b","_","l","o","o","k","u","p">>, <<"a","s","r">>,
     <<"y","t","_","t","r","a","n","s","c","r","i","p","t">>, <<"c","h","e","s","s","_","f","r","o","m","_","i","m","a","g","e">>, <<"c","h","e","s","s","_","e","n","g","i","n","e">>, <<"o","p","e","n","a","i","_","a","n","s","w","e","r">>}

\* tool_allowed(state, name); allowed_tools None or [] is the empty set
tool_allowed(state, name) ==
    name \in TOOL_REGISTRY /\ (state.allowed_tools = {} \/ name \in state.allowed_tools)

(***************************************************************************)
(* The environment: questions, oracle responses, tool outcomes.            *)
(***************************************************************************)
Q_ARITH    == <<"W","h","a","t"," ","i","s"," ","1","2"," ","*"," ","8","?">>
Q_HOW_MANY == <<"H","o","w"," ","m","a","n","y"," ","l","e","g","s"," ","d","o","e","s"," ","a"," ","s","p","i","d","e","r"," ","h","a","v","e","?">>
Questions  == {Q_ARITH, Q_HOW_MANY}

T_96   == <<"9","6">>
T_NA   == <<"n","/","a">>
T_42   == <<" ","4","2"," ">>
\* texts a registered tool can return
T_ERR  == <<"E","R","R","O","R",":"," ","m","a","t","h","_","e","v","a","l",":"," ","i","n","v","a","l","i","d"," ","s","y","n","t","a","x">>
ReturnTexts == {T_96, T_NA, <<>>, T_ERR}
\* messages of the exceptions a registered tool can raise
RaiseTexts == {<<"b","o","o","m">>}
ToolOutcomes == {[kind |-> "return", text |-> t] : t \in ReturnTexts}
                \cup {[kind |-> "raise", text |-> e] : e \in RaiseTexts}

\* yt_transcript returns the text of its own oracle, which is told to reply
\* "unknown" when it does not know (agent/tools/media_tools.py)
YT_TRANSCRIPT == <<"y","t","_","t","r","a","n","s","c","r","i","p","t">>
CODE_RUN == <<"c","o","d","e","_","r","u","n">>
T_UNKNOWN == <<"u","n","k","n","o","w","n">>
\* what the capability registered as tool_name can do when it is called
OutcomesOf(tool_name) ==
    IF tool_name = YT_TRANSCRIPT
    THEN ToolOutcomes \cup {[kind |-> "return", text |-> T_UNKNOWN]}
    ELSE ToolOutcomes

WHY_ORACLE == <<"b","e","c","a","u","s","e">>
ToolCall(t, p) == [tool |-> t, params |-> p, why |-> WHY_ORACLE]
Finish(a)      == [finish |-> a, why |-> WHY_ORACLE]
\* a decision with neither a tool nor a finish key
Neither        == [why |-> WHY_ORACLE]
\* a decision with both keys
Both(a, t, p)  == [finish |-> a, tool |-> t, params |-> p, why |-> WHY_ORACLE]

ControllerDecisions ==
    {ToolCall(MATH_EVAL, EmptyDict), ToolCall(MATH_EVAL, NonMapping), ToolCall(NOPE, EmptyDict),
     Neither, Finish(T_42), Finish(<<>>), Both(T_42, MATH_EVAL, EmptyDict)}

\* The raw text of an oracle response, by its form:
\*   json     the text is a JSON object, data
\*   wrapped  text around one JSON object, data
\*   garbage  text with braces whose first-{ to last-} span is not valid JSON
\*   plain    text without braces
\* and the call itself can fail (call_error).
ControllerResponses ==
    {[form |-> f, data |-> d] : f \in {"json", "wrapped"}, d \in ControllerDecisions}
    \cup {[form |-> "garbage"], [form |-> "plain"], [form |-> "call_error"]}

\* json.loads(raw) succeeds
json_loads_ok(raw) == raw.form = "json"
\* re.search(r"\{.*\}", raw, re.S) finds a span
brace_search(raw) == raw.form \in {"wrapped", "garbage"}
\* json.loads of that span succeeds
brace_span_valid(raw) == raw.form = "wrapped"

\* what a node returns when it raises
Raise(e) == [exception |-> e]
raised(out) == "exception" \in DOMAIN out

\* the plan response of the oracle: n well-formed steps
RawStep(i) == [goal |-> <<" ", "g">> \o nat_to_text(i) \o <<" ">>, tool_hint |-> MATH_EVAL, params_hint |-> EmptyDict]
RawSteps(n) == [i \in 1..n |-> RawStep(i)]
PlannerData ==
    {[steps |-> RawSteps(n)] : n \in {0, MaxPlanResponse}}
    \cup {[why |-> WHY_ORACLE]}                  \* an object without "steps"
    \cup {[steps |-> <<NonMapping>>]}            \* a step that is not an object
    \cup {NonMapping}                            \* a JSON value that is not an object
\* (the span the regex extracts starts with a brace: when it is valid JSON it is
\* an object)
PlannerResponses ==
    {[form |-> "json", data |-> d] : d \in PlannerData}
    \cup {[form |-> "wrapped", data |-> d] : d \in PlannerData \ {NonMapping}}
    \cup {[form |-> "garbage"], [form |-> "plain"], [form |-> "call_error"]}

(***************************************************************************)
(* Task state (agent/state.py, agent/graph.py).                            *)
(***************************************************************************)
make_initial_state(task_id, question, file_name, max_steps, allowed_tools) ==
    [task_id |-> task_id,
     question |-> question,
     file_name |-> file_name,
     plan |-> <<>>,
     plan_cursor |-> 0,
     scratchpad |-> <<>>,
     next_action |-> NoneAction,
     step |-> 0,
     max_steps |-> max_steps,
     answer |-> <<>>,
     allowed_tools |-> allowed_tools,
     last_tool |-> NoneText,
     auto_finish_after_tool |-> FALSE,
     no_progress_count |-> 0,
     early_stop |-> TRUE]

\* the partial update a node returns is merged into the state key by key
Merge(st, upd) == [k \in DOMAIN st |-> IF k \in DOMAIN upd THEN upd[k] ELSE st[k]]

get(d, k, default) == IF k \in DOMAIN d THEN d[k] ELSE default

(***************************************************************************)
(* Planner (agent/planner.py).                                             *)
(***************************************************************************)
\* (faulty variant) every step of the response is kept
all_steps(steps_in) == steps_in

\* steps_in[:4]
first_steps(steps_in) == SubSeq(steps_in, 1, IF Len(steps_in) < 4 THEN Len(steps_in) ELSE 4)

planner_node(state, key, raw) ==
    IF ~key THEN [plan |-> <<>>, plan_cursor |-> 0]
    ELSE IF raw.form = "call_error" THEN Raise("APIError")
    ELSE IF ~json_loads_ok(raw) /\ brace_search(raw) /\ ~brace_span_valid(raw)
         THEN Raise("JSONDecodeError")
    ELSE
    LET data == IF json_loads_ok(raw) \/ brace_search(raw) THEN raw.data ELSE [steps |-> <<>>]
    IN  IF ~is_mapping(data) THEN Raise("AttributeError")
        ELSE
        LET steps_in == get(data, "steps", <<>>)
            first4   == first_steps(steps_in)
        IN  IF \E i \in 1..Len(first4) : ~is_mapping(first4[i]) THEN Raise("AttributeError")
            ELSE [plan |-> [i \in 1..Len(first4) |->
                               [goal |-> strip(get(first4[i], "goal", <<>>)),
                                tool_hint |-> strip(get(first4[i], "tool_hint", <<>>)),
                                params_hint |-> get(first4[i], "params_hint", EmptyDict)]],
                  plan_cursor |-> 0]

(***************************************************************************)
(* Controller (agent/controller.py).                                       *)
(***************************************************************************)
\* (faulty variant) the rule looks at the first Turn instead of the last
auto_finish_first_turn(state) ==
    /\ state.scratchpad # <<>>
    /\ state.scratchpad[1].success
    /\ state.auto_finish_after_tool

\* (faulty variant) the budget rule is tested before the auto-finish rule
auto_finish_within_budget(state) ==
    /\ state.scratchpad # <<>>
    /\ state.scratchpad[Len(state.scratchpad)].success
    /\ state.auto_finish_after_tool
    /\ state.step < state.max_steps

\* rule 1: the last Turn succeeded and auto_finish_after_tool is set
auto_finish_applies(state) ==
    /\ state.scratchpad # <<>>
    /\ state.scratchpad[Len(state.scratchpad)].success
    /\ state.auto_finish_after_tool

\* (faulty variant) the budget rule gives way to a Finish left by the Tool Executor
budget_exhausted_unless_finished(state) ==
    state.step >= state.max_steps /\ "finish" \notin DOMAIN state.next_action

\* (faulty variant) the budget test lets one more step through
budget_exhausted_strict(state) == state.step > state.max_steps

\* rule 2: the step budget is used up
budget_exhausted(state) == state.step >= state.max_steps

\* the Controller gets as far as calling the oracle
oracle_consulted(state, key) ==
    ~auto_finish_applies(state) /\ ~budget_exhausted(state) /\ key

\* (faulty variant) the missing credential goes unnoticed
client_missing_never(key) == FALSE

\* lines 77-78: no client is made when OPENAI_API_KEY is not set
client_missing(key) == ~key

controller_node(state, key, raw) ==
    IF auto_finish_applies(state)
    THEN [next_action |-> [finish |-> state.scratchpad[Len(state.scratchpad)].observation,
                           why |-> WHY_AUTO_FINISH]]
    ELSE IF budget_exhausted(state)
    THEN [next_action |-> [finish |-> MSG_MAX_STEPS, why |-> WHY_BUDGET]]
    ELSE IF client_missing(key)
    THEN [next_action |-> [finish |-> MSG_KEY_MISSING, why |-> WHY_KEY_MISSING]]
    ELSE IF raw.form = "call_error" THEN Raise("APIError")
    ELSE IF json_loads_ok(raw) THEN [next_action |-> raw.data]
    ELSE IF ~brace_search(raw) THEN [next_action |-> [finish |-> MSG_NO_JSON, why |-> WHY_PARSE]]
    ELSE IF brace_span_valid(raw) THEN [next_action |-> raw.data]
    ELSE Raise("JSONDecodeError")

\* (faulty variant) a decision that names a tool goes to the Tool Executor
branch_on_tool(state) ==
    IF "tool" \in DOMAIN state.next_action \/ "finish" \notin DOMAIN state.next_action
    THEN "tool_exec" ELSE "finalize"

\* branch_from_controller (agent/graph.py): the node that runs after the Controller
branch_from_controller(state) ==
    IF "finish" \in DOMAIN state.next_action THEN "finalize" ELSE "tool_exec"

(***************************************************************************)
(* Tool Executor (agent/tool_exec.py).                                     *)
(***************************************************************************)
\* per tool: <<canonical name, aliases in declared order>>
PARAM_ALIASES ==
    [t \in {MATH_EVAL, <<"r","e","v","e","r","s","e","_","d","e","c","o","d","e">>, <<"w","e","b","_","s","e","a","r","c","h">>, <<"w","i","k","i","_","l","o","o","k","u","p">>, <<"y","t","_","t","r","a","n","s","c","r","i","p","t">>,
            <<"a","s","r">>, <<"c","h","e","s","s","_","f","r","o","m","_","i","m","a","g","e">>, <<"c","h","e","s","s","_","e","n","g","i","n","e">>} |->
       CASE t = MATH_EVAL -> << <<"expr", <<"expression", "input", "text", "question", "q">> >> >>
         [] t = <<"r","e","v","e","r","s","e","_","d","e","c","o","d","e">> -> << <<"text", <<"input", "question", "q">> >> >>
         [] t = <<"w","e","b","_","s","e","a","r","c","h">> -> << <<"query", <<"q", "question", "topic", "prompt", "text", "search">> >> >>
         [] t = <<"w","i","k","i","_","l","o","o","k","u","p">> -> << <<"title_or_query", <<"query", "q", "title", "page", "topic", "text">> >> >>
         [] t = <<"y","t","_","t","r","a","n","s","c","r","i","p","t">> -> << <<"url", <<"video_url", "link">> >>, <<"video_id", <<"vid", "v">> >> >>
         [] t = <<"a","s","r">> -> << <<"file_path", <<"path", "filename", "file", "audio", "mp3">> >> >>
         [] t = <<"c","h","e","s","s","_","f","r","o","m","_","i","m","a","g","e">> -> << <<"file_path", <<"path", "filename", "file", "image", "img">> >> >>
         [] t = <<"c","h","e","s","s","_","e","n","g","i","n","e">> -> << <<"fen", <<"position", "FEN", "board">> >> >>]

\* the signatures of the registered tools: the tools that take **kwargs ...
ACCEPTS_KWARGS == TOOL_REGISTRY \ {<<"c","o","d","e","_","r","u","n">>, <<"o","p","e","n","a","i","_","a","n","s","w","e","r">>}
\* ... and the declared parameter names of each, the state argument excluded
DECLARED_PARAMS(t) ==
    CASE t = MATH_EVAL -> {"expr"}
      [] t = <<"r","e","v","e","r","s","e","_","d","e","c","o","d","e">> -> {"text"}
      [] t = <<"c","o","d","e","_","r","u","n">> -> {"file_path", "timeout"}
      [] t \in {<<"w","i","k","i","_","l","o","o","k","u","p">>, <<"w","e","b","_","l","o","o","k","u","p">>} -> {"title_or_query"}
      [] t \in {<<"a","s","r">>, <<"c","h","e","s","s","_","f","r","o","m","_","i","m","a","g","e">>} -> {"file_path"}
      [] t = <<"y","t","_","t","r","a","n","s","c","r","i","p","t">> -> {"url", "video_id", "question", "lang_prefs"}
      [] t = <<"c","h","e","s","s","_","e","n","g","i","n","e">> -> {"fen", "depth"}
      [] t = <<"o","p","e","n","a","i","_","a","n","s","w","e","r">> -> {"instruction", "model", "temperature", "max_tokens"}
      [] OTHER -> {}

\* (faulty variant) every reconciled key is passed, whatever the signature
retain_all(tool_name, params) == params

\* lines 40-45: the keys passed on: all of them when the tool takes **kwargs,
\* else those among its declared parameter names
retain(tool_name, params) ==
    IF tool_name \in ACCEPTS_KWARGS THEN params
    ELSE [k \in DOMAIN params \cap DECLARED_PARAMS(tool_name) |-> params[k]]

\* (faulty variant) the last alias present wins
last_present(alts, raw) ==
    LET idx == {i \in 1..Len(alts) : alts[i] \in DOMAIN raw}
    IN  IF idx = {} THEN "" ELSE alts[SetMax(idx)]

\* the first alias of alts that is a key of raw, "" when there is none
first_present(alts, raw) ==
    LET idx == {i \in 1..Len(alts) : alts[i] \in DOMAIN raw}
    IN  IF idx = {} THEN "" ELSE alts[SetMin(idx)]

\* _normalize_params(tool_name, fn, raw), for raw a mapping
_normalize_params(tool_name, raw) ==
    LET aliases == IF tool_name \in DOMAIN PARAM_ALIASES THEN PARAM_ALIASES[tool_name] ELSE <<>>
        \* canonical names to fill in, with the alias each takes its value from
        fill    == {<<aliases[i][1], first_present(aliases[i][2], raw)>> : i \in
                      {j \in 1..Len(aliases) : /\ aliases[j][1] \notin DOMAIN raw
                                               /\ first_present(aliases[j][2], raw) # ""}}
        keys    == DOMAIN raw \cup {f[1] : f \in fill}
        params  == [k \in keys |-> IF k \in DOMAIN raw THEN raw[k]
                                   ELSE raw[(CHOOSE f \in fill : f[1] = k)[2]]]
    IN  retain(tool_name, params)

\* (faulty variant) the call of the capability is not guarded: its exception leaves the Executor
dispatch_uncaught(tool_name, raw_params, outcome) ==
    IF tool_name = NoneText \/ tool_name = <<>>
    THEN [obs |-> MSG_NOT_SPECIFIED, success |-> FALSE, err |-> <<>>, called |-> FALSE]
    ELSE IF tool_name \notin TOOL_REGISTRY
    THEN [obs |-> MSG_UNKNOWN_TOOL \o tool_name, success |-> FALSE, err |-> <<>>, called |-> FALSE]
    ELSE IF ~is_mapping(raw_params) THEN Raise("ValueError")
    ELSE IF outcome.kind = "raise" THEN Raise("Exception")
    ELSE [obs |-> outcome.text,
          success |-> ~\E mk \in ERROR_MARKERS : startswith(outcome.text, mk),
          err |-> <<>>, called |-> TRUE]

\* lines 80-93: the dispatch of the decision; outcome is what the capability does
\* when it is called.  Every exception is caught (line 87), so the result is
\* never Raise(..).
dispatch(tool_name, raw_params, outcome) ==
    IF tool_name = NoneText \/ tool_name = <<>>
    THEN [obs |-> MSG_NOT_SPECIFIED, success |-> FALSE, err |-> <<>>, called |-> FALSE]
    ELSE IF tool_name \notin TOOL_REGISTRY
    THEN [obs |-> MSG_UNKNOWN_TOOL \o tool_name, success |-> FALSE, err |-> <<>>, called |-> FALSE]
    ELSE IF ~is_mapping(raw_params)
    THEN [obs |-> MSG_TOOL_ERROR \o tool_name \o <<":", " ">> \o E_DICT, success |-> FALSE,
          err |-> E_DICT, called |-> FALSE]
    ELSE IF outcome.kind = "raise"
    THEN [obs |-> MSG_TOOL_ERROR \o tool_name \o <<":", " ">> \o outcome.text, success |-> FALSE,
          err |-> outcome.text, called |-> TRUE]
    ELSE [obs |-> outcome.text,
          success |-> ~\E mk \in ERROR_MARKERS : startswith(outcome.text, mk),
          err |-> <<>>, called |-> TRUE]

\* lines 109-121: the loop-prevention counter
\* (faulty variant) the preceding Turn is compared with the action name as recorded
next_no_progress_recorded_name(state, tool_name, obs, success) ==
    IF ~success /\ state.scratchpad # <<>>
    THEN IF /\ state.scratchpad[Len(state.scratchpad)].action =
                  (IF tool_name = NoneText \/ tool_name = <<>> THEN ACTION_FINISH ELSE tool_name)
            /\ state.scratchpad[Len(state.scratchpad)].observation = obs
         THEN state.no_progress_count + 1
         ELSE 0
    ELSE IF success THEN 0 ELSE state.no_progress_count

\* (faulty variant) every failure after a recorded Turn counts as a repeat
next_no_progress_any_failure(state, tool_name, obs, success) ==
    IF ~success /\ state.scratchpad # <<>> THEN state.no_progress_count + 1
    ELSE IF success THEN 0 ELSE state.no_progress_count

\* lines 109-121 of tool_exec.py: the loop-prevention counter
next_no_progress(state, tool_name, obs, success) ==
    LET no_prog == state.no_progress_count
        prev_sp == state.scratchpad
    IN  IF ~success /\ prev_sp # <<>>
        THEN IF prev_sp[Len(prev_sp)].action = tool_name /\ prev_sp[Len(prev_sp)].observation = obs
             THEN no_prog + 1
             ELSE 0
        ELSE IF success THEN 0 ELSE no_prog

\* the threshold of the loop-abort (line 134)
NO_PROGRESS_LIMIT == 2

\* (faulty variant) without a Finish the executed decision stays in next_action
next_action_kept(state, tool_name, obs, success, no_prog, ef) ==
    IF success /\ state.early_stop /\ ef[1]
    THEN [finish |-> ef[2], why |-> WHY_EARLY \o fmt(tool_name) \o <<".">>]
    ELSE IF ~success /\ no_prog >= NO_PROGRESS_LIMIT
    THEN [finish |-> MSG_STOPPING \o fmt(tool_name) \o <<":", " ">> \o obs, why |-> WHY_LOOP]
    ELSE state.next_action

\* lines 123-136 with ef the result of early_finish (taken only when the attempt
\* succeeded and early_stop is on)
next_action_from(state, tool_name, obs, success, no_prog, ef) ==
    IF success /\ state.early_stop /\ ef[1]
    THEN [finish |-> ef[2], why |-> WHY_EARLY \o fmt(tool_name) \o <<".">>]
    ELSE IF ~success /\ no_prog >= NO_PROGRESS_LIMIT
    THEN [finish |-> MSG_STOPPING \o fmt(tool_name) \o <<":", " ">> \o obs, why |-> WHY_LOOP]
    ELSE NoneAction

\* lines 123-136: the decision the Executor leaves in next_action
executor_next_action(state, tool_name, obs, success, no_prog) ==
    next_action_from(state, tool_name, obs, success, no_prog,
                     early_finish(state.question, obs, state.answer))

\* (faulty variant) the step counter is not advanced
next_step_unchanged(state) == state.step

\* line 147: the step counter after a tool execution
next_step(state) == state.step + 1

\* (faulty variant) the cursor stops at the end of the plan
next_cursor_capped(state, success) ==
    IF success /\ state.plan_cursor < Len(state.plan) THEN state.plan_cursor + 1 ELSE state.plan_cursor

\* (faulty variant) the cursor advances after every attempt
next_cursor_always(state, success) == state.plan_cursor + 1

\* line 125: the plan cursor after the attempt
next_cursor(state, success) == state.plan_cursor + (IF success THEN 1 ELSE 0)

\* (faulty variant) the Turn records the tool name as it is, also when none was selected
new_turn_raw_name(tool_name, raw_params, why, d) ==
    [thought |-> IF why # <<>> THEN why ELSE <<"C","h","o","s","e"," ">> \o fmt(tool_name),
     action |-> fmt(tool_name),
     params |-> raw_params,
     observation |-> d.obs,
     success |-> d.success,
     error |-> d.err,
     duration_ms |-> 0]

\* lines 97-105: the Turn that records the attempt; d is the dispatch
new_turn(tool_name, raw_params, why, d) ==
    [thought |-> IF why # <<>> THEN why ELSE <<"C","h","o","s","e"," ">> \o fmt(tool_name),
     action |-> IF tool_name = NoneText \/ tool_name = <<>> THEN ACTION_FINISH ELSE tool_name,
     params |-> raw_params,
     observation |-> d.obs,
     success |-> d.success,
     error |-> d.err,
     duration_ms |-> 0]

\* (faulty variant) a successful attempt removes the executed step from the plan
executor_update_consuming(state, tool_name, raw_params, why, d, no_prog) ==
    [scratchpad |-> Append(state.scratchpad, new_turn(tool_name, raw_params, why, d)),
     next_action |-> executor_next_action(state, tool_name, d.obs, d.success, no_prog),
     step |-> next_step(state),
     last_tool |-> tool_name,
     plan |-> IF d.success /\ state.plan # <<>> THEN Tail(state.plan) ELSE state.plan,
     plan_cursor |-> state.plan_cursor,
     no_progress_count |-> no_prog]

\* lines 144-151: the update returned, no_prog being the new counter
executor_update(state, tool_name, raw_params, why, d, no_prog) ==
    [scratchpad |-> Append(state.scratchpad, new_turn(tool_name, raw_params, why, d)),
     next_action |-> executor_next_action(state, tool_name, d.obs, d.success, no_prog),
     step |-> next_step(state),
     last_tool |-> tool_name,
     plan_cursor |-> next_cursor(state, d.success),
     no_progress_count |-> no_prog]

\* lines 80-151 for the dispatch d
executor_record(state, tool_name, raw_params, why, d) ==
    IF raised(d) THEN d
    ELSE executor_update(state, tool_name, raw_params, why, d,
                         next_no_progress(state, tool_name, d.obs, d.success))

\* lines 52-151: the attempt at the decision's tool
executor_attempt(state, tool_name, raw_params, why, outcome) ==
    executor_record(state, tool_name, raw_params, why, dispatch(tool_name, raw_params, outcome))

\* (faulty variant) a decision with a finish key is attempted like any other
tool_executor_node_attempting(state, outcome) ==
    executor_attempt(state, get(state.next_action, "tool", NoneText),
                     get(state.next_action, "params", EmptyDict),
                     get(state.next_action, "why", <<>>), outcome)

\* tool_executor_node(state): the update it returns.  The time a call takes is
\* not modelled: duration_ms is 0.  (Lines 57-74 compute a counter that line
\* 110 overwrites; they have no effect.)
tool_executor_node(state, outcome) ==
    IF "finish" \in DOMAIN state.next_action THEN [answer |-> state.next_action.finish]
    ELSE executor_attempt(state, get(state.next_action, "tool", NoneText),
                          get(state.next_action, "params", EmptyDict),
                          get(state.next_action, "why", <<>>), outcome)

(***************************************************************************)
(* Finalizer (agent/finalize.py).                                          *)
(***************************************************************************)
finalize_node(state) ==
    IF state.next_action = NoneAction THEN Raise("AttributeError")
    ELSE LET fin == get(state.next_action, "finish", <<>>)
             raw == IF fin # <<>> THEN fin ELSE state.answer
         IN  [answer |-> normalize_answer(state.question, raw)]

(***************************************************************************)
(* The graph (agent/graph.py, build_controller_app) as a state machine.    *)
(***************************************************************************)
VARIABLES
    pc,            \* the node that runs next: planner, controller, tool_exec, finalize;
                   \* end after the Finalizer; raised when a node raised
    state,         \* the task state
    api_key,       \* OPENAI_API_KEY is configured (agent/config.py)
    error,         \* the exception that ended the run, "" when none
    ctrl_runs,     \* number of Controller runs so far
    exec_runs,     \* number of Tool Executor runs so far
    oracle_calls,  \* number of calls of the oracle so far
    exec_finish,   \* the last Finish the Tool Executor emitted, with the counters then
    last_call,     \* the last capability invoked, with the params it was given
    last_raw,      \* the form of the oracle response the node that just ran received,
                   \* "none" when it received none
    registry,      \* the Tool Registry (agent/registry.py): name -> capability
    first_reg,     \* for each registered name, the capability of its first registration
    tasks,         \* the state instances of tasks run side by side: id -> [pc, state],
                   \* where state.scratchpad is the address of a list object
    heap           \* the list objects: address -> the Turns of the list

vars == <<pc, state, api_key, error, ctrl_runs, exec_runs, oracle_calls, exec_finish, last_call, last_raw,
          registry, first_reg, tasks, heap>>

NoExecFinish == [kind |-> "none"]
NoCall == [tool |-> NoneText]

TASK_ID == <<"t","1">>

\* the allowed_tools a task is started with: none, or an allowlist without math_eval
WIKI_LOOKUP == <<"w","i","k","i","_","l","o","o","k","u","p">>
AllowLists == {{}, {WIKI_LOOKUP}}

\* the registry once the tool modules are imported: every name registered once
StartupRegistry == [n \in TOOL_REGISTRY |-> n]

Init ==
    /\ pc = "planner"
    /\ \E q \in Questions, m \in 0..MaxStepsBound, af \in BOOLEAN, es \in BOOLEAN,
          al \in AllowLists :
          state = [make_initial_state(TASK_ID, q, <<>>, m, al)
                     EXCEPT !.auto_finish_after_tool = af, !.early_stop = es]
    /\ api_key \in BOOLEAN
    /\ error = ""
    /\ ctrl_runs = 0
    /\ exec_runs = 0
    /\ oracle_calls = 0
    /\ exec_finish = NoExecFinish
    /\ last_call = NoCall
    /\ last_raw = "none"
    /\ registry = StartupRegistry
    /\ first_reg = StartupRegistry
    /\ tasks = <<>>
    /\ heap = <<>>

\* a node raised: the exception leaves the graph and the run is over
Abort(out) ==
    /\ pc' = "raised"
    /\ error' = out.exception
    /\ UNCHANGED state

\* a node returned the update out (merged into the state, the run goes on at
\* next_pc) or raised
NodeDone(out, next_pc) ==
    IF raised(out) THEN Abort(out)
    ELSE /\ state' = Merge(state, out)
         /\ pc' = next_pc
         /\ UNCHANGED error

Planner ==
    /\ pc = "planner"
    /\ \E raw \in PlannerResponses :
          /\ NodeDone(planner_node(state, api_key, raw), "controller")
          /\ last_raw' = IF api_key /\ raw.form # "call_error" THEN raw.form ELSE "none"
    /\ oracle_calls' = IF api_key THEN oracle_calls + 1 ELSE oracle_calls
    /\ UNCHANGED <<api_key, ctrl_runs, exec_runs, exec_finish, last_call, registry, first_reg, tasks, heap>>

\* the Controller returned out; the conditional edge then reads the new state
ControllerDone(out) == NodeDone(out, branch_from_controller(Merge(state, out)))

Controller ==
    /\ pc = "controller"
    /\ \E raw \in ControllerResponses :
          /\ ControllerDone(controller_node(state, api_key, raw))
          /\ last_raw' = IF oracle_consulted(state, api_key) /\ raw.form # "call_error"
                         THEN raw.form ELSE "none"
    /\ ctrl_runs' = ctrl_runs + 1
    /\ oracle_calls' = IF oracle_consulted(state, api_key) THEN oracle_calls + 1 ELSE oracle_calls
    /\ UNCHANGED <<api_key, exec_runs, exec_finish, last_call, registry, first_reg, tasks, heap>>

\* the Tool Executor returned out for the decision na, d being the dispatch
ToolExecDone(out, na, d) ==
    /\ NodeDone(out, "controller")
    /\ exec_finish' =
          IF ~raised(out) /\ "next_action" \in DOMAIN out /\ "finish" \in DOMAIN out.next_action
          THEN [kind |-> IF d.success THEN "early" ELSE "abort",
                text |-> out.next_action.finish,
                calls |-> oracle_calls,
                execs |-> exec_runs + 1]
          ELSE exec_finish
    /\ last_call' =
          IF ~raised(out) /\ "finish" \notin DOMAIN na /\ d.called
          THEN [tool |-> na.tool, params |-> _normalize_params(na.tool, na.params)]
          ELSE last_call

ToolExec ==
    /\ pc = "tool_exec"
    /\ \E outcome \in OutcomesOf(get(state.next_action, "tool", NoneText)) :
          ToolExecDone(tool_executor_node(state, outcome), state.next_action,
                       dispatch(get(state.next_action, "tool", NoneText),
                                get(state.next_action, "params", EmptyDict), outcome))
    /\ exec_runs' = exec_runs + 1
    /\ last_raw' = "none"
    /\ UNCHANGED <<api_key, ctrl_runs, oracle_calls, registry, first_reg, tasks, heap>>

Finalize ==
    /\ pc = "finalize"
    /\ NodeDone(finalize_node(state), "end")
    /\ last_raw' = "none"
    /\ UNCHANGED <<api_key, ctrl_runs, exec_runs, oracle_calls, exec_finish, last_call, registry, first_reg, tasks, heap>>

Next == Planner \/ Controller \/ ToolExec \/ Finalize

Spec == Init /\ [][Next]_vars

(***************************************************************************)
(* Registration of tools (agent/registry.py, the decorator tool(name)), which *)
(* happens while the tool modules are imported, before any run.            *)
(***************************************************************************)
\* the names and the capabilities the registrations draw from
RegNames == {MATH_EVAL, WIKI_LOOKUP, NOPE}
Capabilities == {"fn_a", "fn_b", "fn_c"}

\* line 9: TOOL_REGISTRY[name] = fn
tool(reg, name, fn) == [n \in DOMAIN reg \cup {name} |-> IF n = name THEN fn ELSE reg[n]]

\* the record of first registrations after name is registered with fn
note_first(first, name, fn) ==
    IF name \in DOMAIN first THEN first ELSE tool(first, name, fn)

RegInit ==
    /\ pc = "import"
    /\ state = make_initial_state(TASK_ID, Q_ARITH, <<>>, 0, {})
    /\ api_key = FALSE
    /\ error = ""
    /\ ctrl_runs = 0
    /\ exec_runs = 0
    /\ oracle_calls = 0
    /\ exec_finish = NoExecFinish
    /\ last_call = NoCall
    /\ last_raw = "none"
    /\ registry = <<>>
    /\ first_reg = <<>>
    /\ tasks = <<>>
    /\ heap = <<>>

Register ==
    /\ pc = "import"
    /\ \E name \in RegNames, fn \in Capabilities :
          /\ registry' = tool(registry, name, fn)
          /\ first_reg' = note_first(first_reg, name, fn)
    /\ UNCHANGED <<pc, state, api_key, error, ctrl_runs, exec_runs, oracle_calls, exec_finish,
                   last_call, last_raw, tasks, heap>>

RegSpec == RegInit /\ [][Register]_vars

(***************************************************************************)
(* The Finalizer on its own: the Answer Normalizer, through finalize_node,  *)
(* applied to questions with the cues of the rules and to texts of the      *)
(* shapes the rules look for.                                              *)
(***************************************************************************)
Q_IOC == <<"W","h","a","t"," ","i","s"," ","t","h","e"," ","I","O","C"," ","c","o","u","n","t","r","y"," ","c","o","d","e"," ","o","f"," ","I","t","a","l","y","?">>
Q_COUNT_LIST == <<"H","o","w"," ","m","a","n","y"," ","a","r","e"," ","t","h","e","r","e","?"," ","G","i","v","e"," ","a"," ","c","o","m","m","a"," ","s","e","p","a","r","a","t","e","d"," ","l","i","s","t",".">>
Q_NAME_IOC == <<"G","i","v","e"," ","o","n","l","y"," ","t","h","e"," ","f","i","r","s","t"," ","n","a","m","e"," ","a","n","d"," ","t","h","e"," ","I","O","C"," ","c","o","u","n","t","r","y"," ","c","o","d","e",".">>
Q_ALPHA == <<"A","l","p","h","a","b","e","t","i","z","e"," ","t","h","e"," ","n","a","m","e","s",".">>
Q_USD == <<"T","o","t","a","l"," ","i","n"," ","U","S","D"," ","w","i","t","h"," ","t","w","o"," ","d","e","c","i","m","a","l","s","?">>
Q_SAN == <<"B","e","s","t"," ","m","o","v","e"," ","i","n"," ","a","l","g","e","b","r","a","i","c"," ","n","o","t","a","t","i","o","n","?">>
T_ITA_SENTENCE == <<"T","h","e"," ","a","n","s","w","e","r"," ","i","s"," ","I","T","A",","," ","I"," ","b","e","l","i","e","v","e">>
T_ITA == <<"I","T","A">>
T_LIST == <<"p","e","a","r"," ",",","a","p","p","l","e">>
T_EIGHT == <<"e","i","g","h","t">>
T_MOVE == <<"p","l","a","y"," ","N","f","3"," ","n","o","w">>
T_PRICE == <<"a","b","o","u","t"," ","1","9",".","5">>
NormQuestions == {Q_ARITH, Q_HOW_MANY, Q_IOC, Q_COUNT_LIST, Q_NAME_IOC, Q_ALPHA, Q_USD, Q_SAN}
NormTexts == {T_96, T_NA, T_ITA_SENTENCE, T_ITA, T_LIST, T_EIGHT, T_MOVE, T_PRICE}

NormInit ==
    /\ pc = "finalize"
    /\ \E q \in NormQuestions, t \in NormTexts :
          state = [make_initial_state(TASK_ID, q, <<>>, 0, {}) EXCEPT !.next_action = Finish(t)]
    /\ api_key = FALSE
    /\ error = ""
    /\ ctrl_runs = 0
    /\ exec_runs = 0
    /\ oracle_calls = 0
    /\ exec_finish = NoExecFinish
    /\ last_call = NoCall
    /\ last_raw = "none"
    /\ registry = StartupRegistry
    /\ first_reg = StartupRegistry
    /\ tasks = <<>>
    /\ heap = <<>>

NormSpec == NormInit /\ [][Finalize]_vars

(***************************************************************************)
(* The Tool Executor on its own: one run of tool_executor_node on a         *)
(* decision that names a registered tool, over the tools' signatures and   *)
(* the keys the oracle can put in params.                                   *)
(***************************************************************************)
T_2P2 == <<"2","+","2">>
\* math_eval and yt_transcript take **kwargs, code_run does not
ExecTools == {MATH_EVAL, YT_TRANSCRIPT, CODE_RUN}
\* params of a decision: JSON objects with canonical names, aliases and keys
\* no tool knows
ExecParams ==
    {EmptyDict,
     [q |-> T_2P2],
     [expr |-> T_96, q |-> T_2P2],
     [q |-> T_2P2, expression |-> T_96],
     [v |-> T_NA, link |-> T_2P2],
     [zzz |-> T_NA],
     [file_path |-> T_NA, zzz |-> T_NA]}

\* the decisions the Executor is run on: tool calls, and decisions with a
\* finish key
ExecDecisions ==
    {ToolCall(t, p) : t \in ExecTools, p \in ExecParams}
    \cup {Finish(T_42), Finish(<<>>), Both(T_42, MATH_EVAL, EmptyDict)}

ExecInit ==
    /\ pc = "tool_exec"
    /\ \E q \in Questions, na \in ExecDecisions, es \in BOOLEAN :
          state = [make_initial_state(TASK_ID, q, <<>>, 1, {})
                     EXCEPT !.next_action = na, !.early_stop = es]
    /\ api_key = TRUE
    /\ error = ""
    /\ ctrl_runs = 1
    /\ exec_runs = 0
    /\ oracle_calls = 1
    /\ exec_finish = NoExecFinish
    /\ last_call = NoCall
    /\ last_raw = "json"
    /\ registry = StartupRegistry
    /\ first_reg = StartupRegistry
    /\ tasks = <<>>
    /\ heap = <<>>

ExecSpec == ExecInit /\ [][ToolExec]_vars

(***************************************************************************)
(* Two tasks run side by side, each in the state instance that              *)
(* make_initial_state made for it (scripts/run_questions.py, new_app.py),  *)
(* their node runs interleaved.  The scratchpad of a state is a Python     *)
(* list: an object on the heap that a state refers to by its address.      *)
(***************************************************************************)
IsoMaxSteps == 2        \* max_steps of the two tasks ranges over 1..IsoMaxSteps
TaskIds == {1, 2}
TASK_ID_2 == <<"t","2">>

\* (faulty variant) every list made is one and the same object
shared_list(h) == 1

\* the address of a new list object: the literal [] (graph.py line 48) and the
\* concatenation a + b (tool_exec.py line 145) each make one
fresh_list(h) == Len(h) + 1

\* the heap once the list at address ref holds val
put(h, ref, val) == IF ref = Len(h) + 1 THEN Append(h, val) ELSE [h EXCEPT ![ref] = val]

\* the state of task t as a node reads it: the scratchpad is the list the state
\* refers to
view_of(t, h) == [t.state EXCEPT !.scratchpad = h[t.state.scratchpad]]

\* make_initial_state for task i, its scratchpad being the list at address ref
iso_initial(i, ref, max_steps) ==
    [pc |-> "planner",
     state |-> [make_initial_state(IF i = 1 THEN TASK_ID ELSE TASK_ID_2,
                                   IF i = 1 THEN Q_ARITH ELSE Q_HOW_MANY, <<>>, max_steps, {})
                  EXCEPT !.scratchpad = ref]]

\* the heap after the two calls of make_initial_state
heap_after_first == put(<<>>, fresh_list(<<>>), <<>>)
heap_after_second == put(heap_after_first, fresh_list(heap_after_first), <<>>)

IsoPlannerResponses == {[form |-> "json", data |-> [steps |-> RawSteps(1)]], [form |-> "plain"]}
IsoControllerResponses ==
    {[form |-> "json", data |-> d] : d \in {ToolCall(MATH_EVAL, EmptyDict), Finish(T_42)}}
IsoOutcomes == {[kind |-> "return", text |-> t] : t \in {T_96, T_ERR}}

IsoInit ==
    /\ heap = heap_after_second
    /\ \E m1 \in 1..IsoMaxSteps, m2 \in 1..IsoMaxSteps :
          tasks = [i \in TaskIds |->
                     IF i = 1 THEN iso_initial(1, fresh_list(<<>>), m1)
                     ELSE iso_initial(2, fresh_list(heap_after_first), m2)]
    /\ pc = "tasks"
    /\ state = make_initial_state(TASK_ID, Q_ARITH, <<>>, 0, {})
    /\ api_key = TRUE
    /\ error = ""
    /\ ctrl_runs = 0
    /\ exec_runs = 0
    /\ oracle_calls = 0
    /\ exec_finish = NoExecFinish
    /\ last_call = NoCall
    /\ last_raw = "none"
    /\ registry = StartupRegistry
    /\ first_reg = StartupRegistry

\* the update out, whose scratchpad is a new list, is merged into the state of
\* task i: the list gets the address ref
IsoStore(i, out, next_pc, ref) ==
    /\ heap' = put(heap, ref, out.scratchpad)
    /\ tasks' = [tasks EXCEPT ![i] = [pc |-> next_pc,
                                      state |-> Merge(@.state, [out EXCEPT !.scratchpad = ref])]]

\* a node of task i returned the update out, or raised
IsoDone(i, out, next_pc) ==
    IF raised(out)
    THEN /\ tasks' = [tasks EXCEPT ![i].pc = "raised"]
         /\ UNCHANGED heap
    ELSE IF "scratchpad" \in DOMAIN out
    THEN IsoStore(i, out, next_pc, fresh_list(heap))
    ELSE /\ tasks' = [tasks EXCEPT ![i] = [pc |-> next_pc, state |-> Merge(@.state, out)]]
         /\ UNCHANGED heap

IsoControllerDone(i, st, out) == IsoDone(i, out, branch_from_controller(Merge(st, out)))

IsoPlanner(i) ==
    /\ tasks[i].pc = "planner"
    /\ \E raw \in IsoPlannerResponses :
          IsoDone(i, planner_node(view_of(tasks[i], heap), api_key, raw), "controller")
    /\ UNCHANGED <<pc, state, api_key, error, ctrl_runs, exec_runs, oracle_calls, exec_finish,
                   last_call, last_raw, registry, first_reg>>

IsoController(i) ==
    /\ tasks[i].pc = "controller"
    /\ \E raw \in IsoControllerResponses :
          IsoControllerDone(i, view_of(tasks[i], heap),
                            controller_node(view_of(tasks[i], heap), api_key, raw))
    /\ UNCHANGED <<pc, state, api_key, error, ctrl_runs, exec_runs, oracle_calls, exec_finish,
                   last_call, last_raw, registry, first_reg>>

IsoToolExec(i) ==
    /\ tasks[i].pc = "tool_exec"
    /\ \E outcome \in IsoOutcomes :
          IsoDone(i, tool_executor_node(view_of(tasks[i], heap), outcome), "controller")
    /\ UNCHANGED <<pc, state, api_key, error, ctrl_runs, exec_runs, oracle_calls, exec_finish,
                   last_call, last_raw, registry, first_reg>>

IsoFinalize(i) ==
    /\ tasks[i].pc = "finalize"
    /\ IsoDone(i, finalize_node(view_of(tasks[i], heap)), "end")
    /\ UNCHANGED <<pc, state, api_key, error, ctrl_runs, exec_runs, oracle_calls, exec_finish,
                   last_call, last_raw, registry, first_reg>>

IsoNext == \E i \in TaskIds : IsoPlanner(i) \/ IsoController(i) \/ IsoToolExec(i) \/ IsoFinalize(i)

IsoSpec == IsoInit /\ [][IsoNext]_vars

(***************************************************************************)
(* Claims.                                                                 *)
(***************************************************************************)
\* the last Turn, and the one before it
last_turn(sp) == sp[Len(sp)]
prev_turn(sp) == sp[Len(sp) - 1]

\* C1: whatever the oracle answers in the loop (tool calls, finishes, unknown
\* tools, decisions with neither key, unparseable text) and whatever the tools
\* do, the run reaches the Finalizer, after at most max_steps Tool Executor runs
\* and at most max_steps + 1 Controller runs.  A run that a node aborts with an
\* exception is over and does not reach the Finalizer; runs in which the call of
\* the oracle itself fails, or which the Planner aborts, are not counted against
\* the statement.
C1_RunReachesFinalizer ==
    /\ exec_runs <= state.max_steps
    /\ ctrl_runs <= state.max_steps + 1
    /\ (pc = "raised" => (error = "APIError" \/ ctrl_runs = 0))

\* C2: in every reachable state the scratchpad has exactly step Turns.
C2_ScratchpadLengthIsStep == Len(state.scratchpad) = state.step

\* C2 witness: two iterations of Controller and Tool Executor are complete
C2_Witness ==
    pc = "controller" /\ exec_runs = 2 /\ state.step = 2 /\ Len(state.scratchpad) = 2

\* C3: step never exceeds max_steps, and a Controller run that finds
\* step >= max_steps leaves a Finish, never a tool call, in next_action.
C3_StepWithinBudget ==
    /\ state.step <= state.max_steps
    /\ (pc \in {"tool_exec", "finalize"} /\ state.step >= state.max_steps)
          => ("finish" \in DOMAIN state.next_action /\ "tool" \notin DOMAIN state.next_action)

\* C3 witness: the Controller has just refused a further step of a used-up budget
C3_Witness ==
    /\ pc = "finalize"
    /\ state.max_steps >= 1
    /\ state.step = state.max_steps
    /\ ~state.auto_finish_after_tool
    /\ state.next_action = [finish |-> MSG_MAX_STEPS, why |-> WHY_BUDGET]

\* C4: once the Tool Executor has emitted a Finish through the early-finish
\* heuristic, the oracle is not consulted again and no tool is executed again,
\* and the final answer is the normalisation of that Finish's text.  (Runs that
\* an exception aborts are not counted against the statement.)
C4_EarlyFinishEndsRun ==
    (exec_finish.kind = "early" /\ pc # "raised") =>
        /\ oracle_calls = exec_finish.calls
        /\ exec_runs = exec_finish.execs
        /\ (pc = "end" => state.answer = normalize_answer(state.question, exec_finish.text))

\* C5: once the Tool Executor has emitted the loop-abort Finish (a failing
\* attempt with no_progress_count at the threshold), no tool is executed again
\* and the final answer is that Finish.  (Runs that an exception aborts are not
\* counted against the statement.)
C5_LoopAbortEndsRun ==
    (exec_finish.kind = "abort" /\ pc # "raised") =>
        /\ exec_runs = exec_finish.execs
        /\ (pc = "end" => state.answer = normalize_answer(state.question, exec_finish.text))

\* the scratchpad ends with two failing Turns of the same action and observation
two_identical_failures(sp) ==
    /\ Len(sp) >= 2
    /\ ~last_turn(sp).success
    /\ ~prev_turn(sp).success
    /\ last_turn(sp).action = prev_turn(sp).action
    /\ last_turn(sp).observation = prev_turn(sp).observation

\* what the loop-abort yields
loop_abort_fired(st) ==
    st.no_progress_count >= 2 /\ "finish" \in DOMAIN st.next_action

\* the Tool Executor run from st to st2 recorded one more failing Turn with the
\* action name and the observation of the last Turn of st
repeats_last_failure(st, st2) ==
    /\ Len(st2.scratchpad) = Len(st.scratchpad) + 1
    /\ ~last_turn(st2.scratchpad).success
    /\ last_turn(st2.scratchpad).action = last_turn(st.scratchpad).action
    /\ last_turn(st2.scratchpad).observation = last_turn(st.scratchpad).observation

\* C6: when the scratchpad ends with two failing Turns of the same action name
\* and observation, a Tool Executor run that repeats that failure once more
\* yields no_progress_count >= 2 and a Finish.
C6_RepeatedFailureAborts ==
    [][(pc = "tool_exec" /\ two_identical_failures(state.scratchpad)
                         /\ repeats_last_failure(state, state'))
          => loop_abort_fired(state')]_vars

\* C7: for the question "What is 12 * 8?" without a file, max_steps >= 1 and the
\* flags as make_initial_state sets them, when the tool decision dispatched
\* math_eval and the observation was "96", the final answer is "96", whatever
\* the oracle answers afterwards.
C7_ArithmeticAnswerIs96 ==
    (/\ pc = "end"
     /\ state.question = Q_ARITH
     /\ state.file_name = <<>>
     /\ state.max_steps >= 1
     /\ state.early_stop /\ ~state.auto_finish_after_tool
     /\ state.scratchpad # <<>>
     /\ state.scratchpad[1].action = MATH_EVAL
     /\ state.scratchpad[1].observation = T_96)
        => state.answer = T_96

\* C8: a failure of the oracle call in the Planner or the Controller never ends
\* the run with an exception.
C8_OracleErrorRecovered == ~(pc = "raised" /\ error = "APIError")

\* C9: a Tool Executor run on a decision without a finish key never raises; it
\* appends exactly one Turn to the scratchpad and leaves next_action absent or
\* a Finish.
C9_ExecutorNeverRaises ==
    [][pc = "tool_exec" =>
          /\ pc' = "controller"
          /\ error' = ""
          /\ Len(state'.scratchpad) = Len(state.scratchpad) + 1
          /\ SubSeq(state'.scratchpad, 1, Len(state.scratchpad)) = state.scratchpad
          /\ \/ state'.next_action = NoneAction
             \/ "finish" \in DOMAIN state'.next_action /\ "tool" \notin DOMAIN state'.next_action]_vars

\* C9 witness: the Executor has recorded a Turn for a capability that raised, one
\* for an unregistered tool and one for a decision without a tool
C9_Witness ==
    /\ pc = "controller"
    /\ \E i \in 1..Len(state.scratchpad) :
          state.scratchpad[i].action = MATH_EVAL /\ state.scratchpad[i].error \in RaiseTexts
    /\ \E i \in 1..Len(state.scratchpad) : state.scratchpad[i].action = NOPE
    /\ \E i \in 1..Len(state.scratchpad) : state.scratchpad[i].action = ACTION_FINISH

\* C10: when the Controller's oracle response is not a JSON text, also when the
\* brace-delimited span taken from it is not valid JSON, the Controller emits
\* the parse-failure Finish and does not raise.
C10_UnparseableResponseFinishes ==
    (ctrl_runs > 0 /\ last_raw \in {"plain", "garbage"})
        => (pc = "finalize" /\ state.next_action = [finish |-> MSG_NO_JSON, why |-> WHY_PARSE])

\* C11: a Planner whose response cannot be used (not JSON and no valid embedded
\* object, or malformed steps) returns the empty plan with plan_cursor 0 and
\* never ends the run with an exception.  (A failure of the oracle call itself
\* is not counted here.)
C11_PlannerFailureGivesEmptyPlan ==
    /\ (pc = "raised" /\ ctrl_runs = 0) => error = "APIError"
    /\ (pc = "controller" /\ ctrl_runs = 0 /\ last_raw \in {"plain", "garbage"})
          => (state.plan = <<>> /\ state.plan_cursor = 0)

C13_OnlyAllowedToolsInvoked ==
    last_call # NoCall => tool_allowed(state, last_call.tool)

\* C14: registering a name that is already registered leaves its entry as it
\* is: after any sequence of registrations every name maps to the capability of
\* its first registration.
C14_FirstRegistrationKept == registry = first_reg

\* C15: in every reachable state plan_cursor is at most the length of the plan.
C15_CursorWithinPlan == state.plan_cursor <= Len(state.plan)

\* C16: the answer the Finalizer sets is the normalisation, for the question, of
\* the Finish text when there is a non-empty one, and else of the observation
\* of the last recorded Turn (of the empty text when no Turn was recorded).
C16_FinalizerFallsBackOnObservation ==
    pc = "end" =>
        LET fin == get(state.next_action, "finish", <<>>)
            raw == IF fin # <<>> THEN fin
                   ELSE IF state.scratchpad # <<>> THEN last_turn(state.scratchpad).observation
                   ELSE <<>>
        IN  state.answer = normalize_answer(state.question, raw)

\* C17: a Controller run applies its rules in order.  When the last Turn exists
\* and succeeded and auto_finish_after_tool is set, it emits the Finish with
\* that Turn's observation verbatim and does not call the oracle, also when
\* step >= max_steps; otherwise, when step >= max_steps, it emits the
\* budget-exhausted Finish and does not call the oracle; only otherwise, and
\* with the credential, the oracle is called.
C17_ControllerRuleOrder ==
    [][pc = "controller" =>
          IF /\ state.scratchpad # <<>>
             /\ last_turn(state.scratchpad).success
             /\ state.auto_finish_after_tool
          THEN /\ state'.next_action = [finish |-> last_turn(state.scratchpad).observation,
                                        why |-> WHY_AUTO_FINISH]
               /\ oracle_calls' = oracle_calls
               /\ pc' = "finalize"
          ELSE IF state.step >= state.max_steps
          THEN /\ state'.next_action = [finish |-> MSG_MAX_STEPS, why |-> WHY_BUDGET]
               /\ oracle_calls' = oracle_calls
               /\ pc' = "finalize"
          ELSE oracle_calls' = oracle_calls + (IF api_key THEN 1 ELSE 0)]_vars

\* C17 witness: the auto-finish rule has fired with the budget used up
C17_Witness ==
    /\ pc = "finalize"
    /\ state.auto_finish_after_tool
    /\ state.scratchpad # <<>>
    /\ state.step >= state.max_steps
    /\ state.next_action = [finish |-> T_96, why |-> WHY_AUTO_FINISH]

\* C18: for a question with the cue "ioc country code", the Finalizer's answer
\* for the text "The answer is ITA, I believe" is "ITA".
C18_IocCodeFromSentence ==
    (pc = "end" /\ state.question = Q_IOC /\ state.next_action.finish = T_ITA_SENTENCE)
        => state.answer = T_ITA

\* C19: the Finalizer's answer is the result of the first rule, in the order
\* numeric, first name, IOC, list, currency, chess, whose cue is in the
\* question, applied to the stripped text, and the stripped text itself when
\* that rule extracts nothing or no cue is in the question; no later rule is
\* applied.
first_match_only(q, a) ==
    IF has_numeric_cue(q) THEN text_or(_numeric_only(a), a)
    ELSE IF has_first_name_cue(q) THEN _first_name_only(a)
    ELSE IF has_ioc_cue(q) THEN text_or(_ioc_code_only(a), a)
    ELSE IF has_list_cue(q)
         THEN _csv_normalize(a, \/ contains(q, <<"a","l","p","h","a","b","e","t","i","z","e">>)
                                \/ contains(q, <<"a","s","c","e","n","d","i","n","g"," ","o","r","d","e","r">>))
    ELSE IF has_usd_cue(q) THEN text_or(_usd_two_decimals(a), a)
    ELSE IF has_san_cue(q) THEN text_or(_san_only(a), a)
    ELSE a

C19_FirstMatchingRuleWins ==
    pc = "end" =>
        state.answer = first_match_only(lower(state.question), strip(state.next_action.finish))

\* C20: for every question, the rule is_plausible_for_question validates
\* against is the rule normalize_answer selects for that question.
C20_SameKeywordRouting ==
    pc = "end" => plausible_route(lower(state.question)) = normalize_route(lower(state.question))

\* C22: a Tool Executor run on a decision without a finish key sets plan_cursor
\* to its previous value plus one when the attempt it records succeeded, and
\* leaves plan_cursor unchanged when the attempt failed.
C22_CursorAdvancesOnSuccessOnly ==
    [][(pc = "tool_exec" /\ "finish" \notin DOMAIN state.next_action) =>
          /\ Len(state'.scratchpad) = Len(state.scratchpad) + 1
          /\ state'.plan_cursor =
                IF state'.scratchpad[Len(state'.scratchpad)].success
                THEN state.plan_cursor + 1
                ELSE state.plan_cursor]_vars

\* C22 witness: after a successful and a failed attempt the cursor is at 1
C22_Witness ==
    /\ pc = "controller"
    /\ Len(state.scratchpad) = 2
    /\ state.scratchpad[1].success
    /\ ~state.scratchpad[2].success
    /\ state.plan_cursor = 1

\* C23: after a Tool Executor run on a decision without a finish key,
\* no_progress_count is the previous value plus one when the attempt failed and
\* the Turn before it has the same action name and the same observation, and 0
\* otherwise (the attempt succeeded, or failed with another action or
\* observation).
C23_NoProgressCounter ==
    [][(pc = "tool_exec" /\ "finish" \notin DOMAIN state.next_action) =>
          /\ Len(state'.scratchpad) = Len(state.scratchpad) + 1
          /\ state'.no_progress_count =
                IF /\ ~last_turn(state'.scratchpad).success
                   /\ state.scratchpad # <<>>
                   /\ last_turn(state.scratchpad).action = last_turn(state'.scratchpad).action
                   /\ last_turn(state.scratchpad).observation = last_turn(state'.scratchpad).observation
                THEN state.no_progress_count + 1
                ELSE 0]_vars

\* C24: a Tool Executor run on a decision without a finish key appends exactly
\* one Turn: the new scratchpad is the old one followed by one Turn whose action
\* is the decision's tool name, "finish" when it has none, and whose params are
\* the decision's params; the Turns recorded before are unchanged.
C24_ExactlyOneTurnAppended ==
    [][(pc = "tool_exec" /\ "finish" \notin DOMAIN state.next_action) =>
          /\ state'.scratchpad = Append(state.scratchpad, last_turn(state'.scratchpad))
          /\ last_turn(state'.scratchpad).action =
                (IF "tool" \in DOMAIN state.next_action THEN state.next_action.tool ELSE ACTION_FINISH)
          /\ last_turn(state'.scratchpad).params = get(state.next_action, "params", EmptyDict)]_vars

\* C24 witness: three Turns are recorded: one for math_eval with params that
\* are not a mapping, one for a decision without a tool, one for an unknown tool
C24_Witness ==
    /\ pc = "controller"
    /\ Len(state.scratchpad) = 3
    /\ \E i \in 1..3 : state.scratchpad[i].action = MATH_EVAL /\ state.scratchpad[i].params = NonMapping
    /\ \E i \in 1..3 : state.scratchpad[i].action = ACTION_FINISH
    /\ \E i \in 1..3 : state.scratchpad[i].action = NOPE

\* C25: the Turn a Tool Executor run records has success = FALSE exactly when
\* its observation begins with "ERROR:" or "TOOL_ERROR:" (the text a capability
\* returned, or the one made for a capability that raised and for an unknown or
\* unspecified tool); every other returned text is recorded with success =
\* TRUE; when the capability raised the observation carries the exception text.
C25_FailureIffErrorMarker ==
    [][(pc = "tool_exec" /\ "finish" \notin DOMAIN state.next_action) =>
          /\ last_turn(state'.scratchpad).success =
                ~(\/ startswith(last_turn(state'.scratchpad).observation, <<"E","R","R","O","R",":">>)
                  \/ startswith(last_turn(state'.scratchpad).observation, <<"T","O","O","L","_","E","R","R","O","R",":">>))
          /\ last_turn(state'.scratchpad).error # <<>> =>
                last_turn(state'.scratchpad).observation =
                    MSG_TOOL_ERROR \o state.next_action.tool \o <<":", " ">> \o last_turn(state'.scratchpad).error]_vars

\* the alias table of a tool, empty when it has none
alias_table(tool_name) ==
    IF tool_name \in DOMAIN PARAM_ALIASES THEN PARAM_ALIASES[tool_name] ELSE <<>>

\* got reconciles raw for the canonical name c with aliases alts: c keeps its
\* raw value when raw has it, and else has the value of the first alias, in
\* the declared order, that raw has
reconciled_for(c, alts, raw, got) ==
    /\ c \in DOMAIN raw => (c \in DOMAIN got /\ got[c] = raw[c])
    /\ (c \notin DOMAIN raw /\ \E j \in 1..Len(alts) : alts[j] \in DOMAIN raw) =>
          /\ c \in DOMAIN got
          /\ \E j \in 1..Len(alts) :
                /\ alts[j] \in DOMAIN raw
                /\ \A k \in 1..(j - 1) : alts[k] \notin DOMAIN raw
                /\ got[c] = raw[alts[j]]

\* C26: the params a capability is called with map every canonical name of the
\* tool's alias table that the decision's params lack to the value of the first
\* alias, in declared order, that the decision's params have; a canonical name
\* the decision's params have keeps its value; math_eval called on {q: "2+2"}
\* gets expr = "2+2".
C26_AliasesReconciled ==
    [][(pc = "tool_exec" /\ last_call' # last_call) =>
          /\ last_call'.tool = state.next_action.tool
          /\ \A i \in 1..Len(alias_table(state.next_action.tool)) :
                reconciled_for(alias_table(state.next_action.tool)[i][1],
                               alias_table(state.next_action.tool)[i][2],
                               state.next_action.params, last_call'.params)
          /\ (state.next_action.tool = MATH_EVAL /\ state.next_action.params = [q |-> T_2P2])
                => last_call'.params = [q |-> T_2P2, expr |-> T_2P2]]_vars

\* C26 witness: math_eval was called on params with two aliases of expr,
\* "expression" declared before "q", and got the value of "expression"
C26_Witness ==
    /\ pc = "controller"
    /\ last_call.tool = MATH_EVAL
    /\ last_turn(state.scratchpad).params = [q |-> T_2P2, expression |-> T_96]
    /\ last_call.params = [q |-> T_2P2, expression |-> T_96, expr |-> T_96]

\* the canonical names of a tool's alias table that raw lacks and that one of
\* their aliases in raw fills
filled_names(tool_name, raw) ==
    {alias_table(tool_name)[i][1] : i \in
        {j \in 1..Len(alias_table(tool_name)) :
            /\ alias_table(tool_name)[j][1] \notin DOMAIN raw
            /\ \E k \in 1..Len(alias_table(tool_name)[j][2]) :
                  alias_table(tool_name)[j][2][k] \in DOMAIN raw}}

\* C27: a capability that takes an open-ended parameter set is called with
\* every reconciled key (the keys of the decision's params and the canonical
\* names filled in); one with a closed parameter set is called with those of
\* them that are among its declared parameter names, the state argument not
\* counted; keys it does not declare are dropped and the capability is still
\* called: the Turn carries no error but the capability's own.
C27_KeysPassedBySignature ==
    [][(/\ pc = "tool_exec"
        /\ "finish" \notin DOMAIN state.next_action
        /\ "tool" \in DOMAIN state.next_action
        /\ state.next_action.tool \in TOOL_REGISTRY
        /\ is_mapping(state.next_action.params)) =>
          /\ last_call'.tool = state.next_action.tool
          /\ DOMAIN last_call'.params =
                IF state.next_action.tool \in ACCEPTS_KWARGS
                THEN DOMAIN state.next_action.params
                        \cup filled_names(state.next_action.tool, state.next_action.params)
                ELSE (DOMAIN state.next_action.params
                        \cup filled_names(state.next_action.tool, state.next_action.params))
                     \cap (DECLARED_PARAMS(state.next_action.tool) \ {"state"})
          /\ \A k \in DOMAIN last_call'.params \cap DOMAIN state.next_action.params :
                last_call'.params[k] = state.next_action.params[k]
          /\ last_turn(state'.scratchpad).error \in RaiseTexts \cup {<<>>}]_vars

\* C27 witness: code_run, whose parameter set is closed, was called on params
\* with a key it does not declare, got file_path alone and succeeded
C27_Witness ==
    /\ pc = "controller"
    /\ last_call.tool = CODE_RUN
    /\ last_turn(state.scratchpad).params = [file_path |-> T_NA, zzz |-> T_NA]
    /\ last_call.params = [file_path |-> T_NA]
    /\ last_turn(state.scratchpad).success

\* na is the decision of a Controller run on st that received an oracle
\* response of the given form, or none ("none")
own_decision(st, key, form, na) ==
    IF form = "none"
    THEN [next_action |-> na] = controller_node(st, key, [form |-> "plain"])
    ELSE \E raw \in {r \in ControllerResponses : r.form = form} :
            [next_action |-> na] = controller_node(st, key, raw)

\* C28: next_action is never stale.  After a Tool Executor run next_action is
\* absent or a Finish, never the decision just executed; a Controller run that
\* returns puts its own decision in next_action; and every Tool Executor run
\* has a Controller run of its own before it, so no decision is executed
\* twice.
C28_NextActionNeverStale ==
    [][/\ pc = "tool_exec" =>
             /\ exec_runs + 1 = ctrl_runs
             /\ \/ state'.next_action = NoneAction
                \/ "finish" \in DOMAIN state'.next_action /\ "tool" \notin DOMAIN state'.next_action
       /\ (pc = "controller" /\ pc' # "raised") =>
             /\ state'.next_action # NoneAction
             /\ state.next_action = NoneAction \/ "tool" \notin DOMAIN state.next_action
             /\ own_decision(state, api_key, last_raw', state'.next_action)
             /\ pc' = "tool_exec" => exec_runs' + 1 = ctrl_runs']_vars

\* C28 witness: the oracle gave the same tool call twice and each was executed
\* once, after its own Controller run
C28_Witness ==
    /\ pc = "controller"
    /\ ctrl_runs = 2
    /\ exec_runs = 2
    /\ state.next_action = NoneAction
    /\ Len(state.scratchpad) = 2
    /\ state.scratchpad[1].action = MATH_EVAL
    /\ state.scratchpad[2].action = MATH_EVAL
    /\ state.scratchpad[1].params = state.scratchpad[2].params

\* C29: in every step of a run task_id, question, file_name and max_steps keep
\* their values, and no step of the Controller, the Tool Executor or the
\* Finalizer changes the plan the Planner returned.
C29_CreationFieldsAndPlanKept ==
    [][/\ state'.task_id = state.task_id
       /\ state'.question = state.question
       /\ state'.file_name = state.file_name
       /\ state'.max_steps = state.max_steps
       /\ pc # "planner" => state'.plan = state.plan]_vars

\* C29 witness: a run with a plan of four steps has ended after the cursor moved
C29_Witness ==
    /\ pc = "end"
    /\ Len(state.plan) = 4
    /\ state.plan_cursor = 2
    /\ Len(state.scratchpad) = 3
    /\ state.task_id = TASK_ID
    /\ state.question = Q_HOW_MANY

\* C30: the nodes of a run follow the wiring.  The Planner runs once, before
\* any Controller run, and the Controller runs next; after a Controller run the
\* Tool Executor runs when the decision has no finish key and the Finalizer when
\* it has one; after the Tool Executor the Controller runs; after the Finalizer
\* the run is over and nothing runs; no run ends otherwise.
C30_NodeOrdering ==
    [][/\ pc \notin {"end", "raised"}
       /\ pc' # "planner"
       /\ pc = "planner" => (ctrl_runs = 0 /\ exec_runs = 0 /\ pc' = "controller")
       /\ pc = "controller" =>
             pc' = (IF "finish" \in DOMAIN state'.next_action THEN "finalize" ELSE "tool_exec")
       /\ pc = "tool_exec" => pc' = "controller"
       /\ pc = "finalize" => pc' = "end"]_vars

\* C21: two tasks run as separate state instances are isolated: whatever the
\* interleaving, a step of one task changes no field of the other task's state,
\* its scratchpad list included, and no step of a run modifies the registry.
C21_TasksIsolated ==
    [][/\ \A i \in TaskIds, j \in TaskIds :
             (i # j /\ tasks'[i] # tasks[i]) =>
                 /\ tasks'[j].pc = tasks[j].pc
                 /\ view_of(tasks'[j], heap') = view_of(tasks[j], heap)
       /\ registry' = registry]_vars

\* C21 witness: both tasks have ended, each with Turns of its own in its
\* scratchpad, after Tool Executor runs of both
C21_Witness ==
    /\ pc = "tasks"
    /\ \A i \in TaskIds : tasks[i].pc = "end"
    /\ Len(view_of(tasks[1], heap).scratchpad) = 2
    /\ Len(view_of(tasks[2], heap).scratchpad) = 1
    /\ view_of(tasks[1], heap).answer # view_of(tasks[2], heap).answer

\* C31: a Tool Executor run on a decision with a finish key passes it through:
\* answer becomes the Finish text as it is, and scratchpad, step, plan_cursor,
\* no_progress_count, last_tool and next_action are unchanged; no Turn is
\* recorded and no capability is invoked.
C31_FinishPassedThrough ==
    [][(pc = "tool_exec" /\ "finish" \in DOMAIN state.next_action) =>
          /\ pc' = "controller"
          /\ state' = [state EXCEPT !.answer = state.next_action.finish]
          /\ last_call' = last_call]_vars

\* C31 witness: the Executor has run on a decision with a finish key and a tool key
C31_Witness ==
    /\ pc = "controller"
    /\ exec_runs = 1
    /\ state.next_action = Both(T_42, MATH_EVAL, EmptyDict)
    /\ state.answer = T_42
    /\ state.scratchpad = <<>>
    /\ state.step = 0
    /\ last_call = NoCall

\* t is entirely a signed integer or decimal: an optional minus sign, digits,
\* and optionally a point followed by digits
is_signed_number(t) ==
    /\ t # <<>>
    /\ \E first \in {1, 2} :
          /\ first = 2 => t[1] = "-"
          /\ first <= Len(t)
          /\ IsDigit(t[first])
          /\ IsDigit(t[Len(t)])
          /\ \A i \in first..Len(t) : IsDigit(t[i]) \/ t[i] = "."
          /\ Cardinality({i \in first..Len(t) : t[i] = "."}) <= 1

\* C32: the Tool Executor leaves an early-finish Finish only when the attempt
\* succeeded, early_stop is on and the normalized observation is plausible for
\* the question; its text is that normalized observation; for a question with a
\* numeric cue the text is entirely a signed integer or decimal; and with
\* early_stop off a successful attempt leaves no Finish.
C32_EarlyFinishOnlyWhenPlausible ==
    [][(pc = "tool_exec" /\ "finish" \notin DOMAIN state.next_action) =>
          /\ ("finish" \in DOMAIN state'.next_action /\ last_turn(state'.scratchpad).success) =>
                /\ state.early_stop
                /\ state'.next_action.finish =
                      normalize_answer(state.question, strip(last_turn(state'.scratchpad).observation))
                /\ is_plausible_for_question(state.question, state'.next_action.finish)
                /\ has_numeric_cue(lower(state.question)) => is_signed_number(state'.next_action.finish)
          /\ "finish" \in DOMAIN state'.next_action =>
                (last_turn(state'.scratchpad).success \/ state'.no_progress_count >= NO_PROGRESS_LIMIT)
          /\ (last_turn(state'.scratchpad).success /\ ~state.early_stop) =>
                state'.next_action = NoneAction]_vars

\* C32 witness: for a question with a numeric cue the Executor has left an
\* early-finish Finish with the number the tool returned
C32_Witness ==
    /\ pc = "controller"
    /\ exec_runs = 1
    /\ state.question = Q_HOW_MANY
    /\ state.early_stop
    /\ Len(state.scratchpad) = 1
    /\ last_turn(state.scratchpad).success
    /\ "finish" \in DOMAIN state.next_action
    /\ state.next_action.finish = T_96

\* C33: the stored plan has at most 4 steps, the first 4 of the response in
\* order, each with exactly a goal, a tool hint and a params hint; and
\* plan_cursor is 0 when the first Controller run starts.
C33_PlanAtMostFourSteps ==
    /\ Len(state.plan) <= 4
    /\ \A i \in 1..Len(state.plan) :
          /\ DOMAIN state.plan[i] = {"goal", "tool_hint", "params_hint"}
          /\ state.plan[i].goal = <<"g">> \o nat_to_text(i)
          /\ state.plan[i].tool_hint = RawStep(i).tool_hint
          /\ state.plan[i].params_hint = RawStep(i).params_hint
    /\ (pc = "controller" /\ ctrl_runs = 0) => state.plan_cursor = 0

\* C33 witness: the first Controller run starts with a plan of 4 steps cut from
\* a longer response
C33_Witness ==
    /\ pc = "controller"
    /\ ctrl_runs = 0
    /\ MaxPlanResponse > 4
    /\ Len(state.plan) = 4
    /\ state.plan[4].goal = <<"g", "4">>

(***************************************************************************)
(* A run under the recursion limit (quick_test.py, ControllerAgent.__call__): *)
(* app.invoke(state, config={"recursion_limit": rec_lim}) raises           *)
(* GraphRecursionError when the limit is reached before the graph ends.    *)
(***************************************************************************)
\* (faulty variant) the limit of an invocation without config
recursion_limit_default(max_steps) == 25

\* rec_lim = max(120, 5 * max_steps)
recursion_limit(max_steps) == IF 5 * max_steps > 120 THEN 5 * max_steps ELSE 120

\* the nodes executed so far in the run
node_executions ==
    (IF pc = "planner" THEN 0 ELSE 1) + ctrl_runs + exec_runs + (IF pc = "end" THEN 1 ELSE 0)

\* the oracle asks for a tool at every turn, or finishes
CeilControllerResponses ==
    {[form |-> "json", data |-> d] : d \in {ToolCall(MATH_EVAL, EmptyDict), Finish(T_42)}}
\* the tool returns a text that is no answer to the question
CeilOutcome == [kind |-> "return", text |-> T_NA]

CeilInit ==
    /\ pc = "planner"
    /\ \E m \in 1..MaxCeilSteps :
          state = [make_initial_state(TASK_ID, Q_HOW_MANY, <<>>, m, {})
                     EXCEPT !.auto_finish_after_tool = FALSE]
    /\ api_key = TRUE
    /\ error = ""
    /\ ctrl_runs = 0
    /\ exec_runs = 0
    /\ oracle_calls = 0
    /\ exec_finish = NoExecFinish
    /\ last_call = NoCall
    /\ last_raw = "none"
    /\ registry = StartupRegistry
    /\ first_reg = StartupRegistry
    /\ tasks = <<>>
    /\ heap = <<>>

\* the limit is reached and the graph has not ended
limit_reached == node_executions >= recursion_limit(state.max_steps)

GraphRecursionError ==
    /\ Abort(Raise("GraphRecursionError"))
    /\ UNCHANGED <<ctrl_runs, exec_runs, oracle_calls, exec_finish, last_call, last_raw>>

CeilPlanner ==
    /\ pc = "planner"
    /\ IF limit_reached THEN GraphRecursionError
       ELSE /\ NodeDone(planner_node(state, api_key, [form |-> "plain"]), "controller")
            /\ oracle_calls' = oracle_calls + 1
            /\ UNCHANGED <<ctrl_runs, exec_runs, exec_finish, last_call, last_raw>>
    /\ UNCHANGED <<api_key, registry, first_reg, tasks, heap>>

CeilController ==
    /\ pc = "controller"
    /\ IF limit_reached THEN GraphRecursionError
       ELSE /\ \E raw \in CeilControllerResponses :
                  ControllerDone(controller_node(state, api_key, raw))
            /\ ctrl_runs' = ctrl_runs + 1
            /\ oracle_calls' = IF oracle_consulted(state, api_key) THEN oracle_calls + 1 ELSE oracle_calls
            /\ UNCHANGED <<exec_runs, exec_finish, last_call, last_raw>>
    /\ UNCHANGED <<api_key, registry, first_reg, tasks, heap>>

CeilToolExec ==
    /\ pc = "tool_exec"
    /\ IF limit_reached THEN GraphRecursionError
       ELSE /\ NodeDone(tool_executor_node(state, CeilOutcome), "controller")
            /\ exec_runs' = exec_runs + 1
            /\ UNCHANGED <<ctrl_runs, oracle_calls, exec_finish, last_call, last_raw>>
    /\ UNCHANGED <<api_key, registry, first_reg, tasks, heap>>

CeilFinalize ==
    /\ pc = "finalize"
    /\ IF limit_reached THEN GraphRecursionError
       ELSE /\ NodeDone(finalize_node(state), "end")
            /\ UNCHANGED <<ctrl_runs, exec_runs, oracle_calls, exec_finish, last_call, last_raw>>
    /\ UNCHANGED <<api_key, registry, first_reg, tasks, heap>>

CeilNext == CeilPlanner \/ CeilController \/ CeilToolExec \/ CeilFinalize

CeilSpec == CeilInit /\ [][CeilNext]_vars

\* C34: for every max_steps >= 1 the recursion limit max(120, 5*max_steps) is
\* greater than 2*max_steps + 3, no run executes more than 2*max_steps + 3
\* nodes, and no run is ended by the recursion limit: when the budget is used
\* up the Controller's budget Finish is reached.
C34_CeilingAboveBudget ==
    /\ recursion_limit(state.max_steps) > 2 * state.max_steps + 3
    /\ node_executions <= 2 * state.max_steps + 3
    /\ error # "GraphRecursionError"
    /\ (pc \in {"finalize", "end"} /\ state.step = state.max_steps) =>
          state.next_action = [finish |-> MSG_MAX_STEPS, why |-> WHY_BUDGET]

\* C34 witness: the longest run for a max_steps whose limit is 5*max_steps has
\* ended after 2*max_steps + 3 node executions
C34_Witness ==
    /\ pc = "end"
    /\ 5 * state.max_steps > 120
    /\ state.step = state.max_steps
    /\ node_executions = 2 * state.max_steps + 3
    /\ state.next_action.why = WHY_BUDGET

\* the last n Turns of sp are failures with one action name and one observation
identical_failures(sp, n) ==
    /\ Len(sp) >= n
    /\ \A i \in (Len(sp) - n + 1)..Len(sp) :
          /\ ~sp[i].success
          /\ sp[i].action = sp[Len(sp)].action
          /\ sp[i].observation = sp[Len(sp)].observation

\* C35: when no_progress_count is k > 0 the last k + 1 Turns are failures with
\* the same action name and the same observation; and the Executor's loop-abort
\* Finish is present only when the count is at least 2 and the last three Turns
\* are such identical failures.
C35_CounterMeansIdenticalFailures ==
    /\ state.no_progress_count > 0 =>
          identical_failures(state.scratchpad, state.no_progress_count + 1)
    /\ ("finish" \in DOMAIN state.next_action /\ state.next_action.why = WHY_LOOP) =>
          /\ state.no_progress_count >= NO_PROGRESS_LIMIT
          /\ identical_failures(state.scratchpad, 3)

\* C35 witness: the loop-abort Finish has just been emitted after three identical
\* failing Turns
C35_Witness ==
    /\ pc = "controller"
    /\ "finish" \in DOMAIN state.next_action
    /\ state.next_action.why = WHY_LOOP
    /\ state.no_progress_count = 2
    /\ Len(state.scratchpad) = 3
    /\ identical_failures(state.scratchpad, 3)

\* the number of Turns of sp recorded with success = true
successful_turns(sp) == Cardinality({i \in 1..Len(sp) : sp[i].success})

\* C36: in every state of a run plan_cursor is the number of Turns recorded
\* with success = true, whatever the length of the plan.
C36_CursorCountsSuccesses ==
    state.plan_cursor = successful_turns(state.scratchpad)

\* C36 witness: two successful Turns and a failing one have been recorded on an
\* empty plan, and the cursor is 2
C36_Witness ==
    /\ state.plan = <<>>
    /\ Len(state.scratchpad) = 3
    /\ successful_turns(state.scratchpad) = 2
    /\ state.plan_cursor = 2

\* the normalization of the budget message, for each question
budget_answer == [q \in Questions |-> normalize_answer(q, MSG_MAX_STEPS)]

observation_answer == [q \in Questions |-> [t \in ReturnTexts \cup {T_UNKNOWN} |-> normalize_answer(q, t)]]

\* C38: with auto_finish_after_tool set the scratchpad never holds more than
\* one successful Turn and a successful Turn is the last one; in a final state
\* with a successful Turn the final answer is the normalization of that Turn's
\* observation.
C38_AutoFinishAfterFirstSuccess ==
    state.auto_finish_after_tool =>
        /\ successful_turns(state.scratchpad) <= 1
        /\ successful_turns(state.scratchpad) = 1 =>
              /\ last_turn(state.scratchpad).success
              /\ pc \in {"controller", "finalize", "end"}
              /\ pc = "end" =>
                    state.answer =
                        observation_answer[state.question][last_turn(state.scratchpad).observation]

\* C38 witness: a run with auto_finish_after_tool set has ended after a failing
\* Turn and a successful one, with budget left
C38_Witness ==
    /\ pc = "end"
    /\ state.auto_finish_after_tool
    /\ Len(state.scratchpad) = 2
    /\ state.step < state.max_steps
    /\ ~state.scratchpad[1].success
    /\ state.scratchpad[2].success
    /\ state.scratchpad[2].observation = T_96
    /\ state.answer = T_96

\* every Turn of sp records a decision without a tool
only_unspecified(sp) ==
    \A i \in 1..Len(sp) :
        /\ sp[i].action = ACTION_FINISH
        /\ sp[i].observation = MSG_NOT_SPECIFIED
        /\ ~sp[i].success

C40_FinishWithToolIsFinish ==
    ("finish" \in DOMAIN state.next_action /\ "tool" \in DOMAIN state.next_action) =>
        /\ pc \in {"finalize", "end"}
        /\ exec_runs = ctrl_runs - 1
        /\ Len(state.scratchpad) = exec_runs
        /\ (exec_runs = 0 => last_call = NoCall)
        /\ pc = "end" =>
              state.answer = normalize_answer(state.question, state.next_action.finish)

\* C40 witness: the first decision of a run has both keys; the run has ended
\* with its finish text and an empty scratchpad, math_eval never called
C40_Witness ==
    /\ pc = "end"
    /\ state.next_action = Both(T_42, MATH_EVAL, EmptyDict)
    /\ state.scratchpad = <<>>
    /\ exec_runs = 0
    /\ last_call = NoCall
    /\ state.answer = <<"4", "2">>

====
